---- MODULE Spec2Model ----
(***************************************************************************)
(* Model of the ProtoEngine voxel core:                                    *)
(*   - world::MeshWorker       (src/src/world/MeshWorker.hpp)              *)
(*   - gfx::BlockAllocator     (src/src/gfx/resources/GeometryManager.hpp) *)
(*   - gfx::GeometryManager    (src/src/gfx/resources/GeometryManager.hpp) *)
(*   - world::ChunkRenderer    (src/src/world/ChunkRenderer.cpp)           *)
(* Each subsystem has its own variables, its own next-state relation and   *)
(* its own specification; the other subsystems' variables stay unchanged.  *)
(***************************************************************************)
EXTENDS Integers, Sequences, FiniteSets, TLC

(***************************************************************************)
(* Bounds of the model.                                                    *)
(***************************************************************************)
\* log2 of the ring capacity (the program uses 16, RING_SIZE = 65536)
RingBits == 1
\* largest number of worker threads (threadCount of the constructor)
NWorkers == 2
\* number of tasks the main thread submits over a run
MaxTasks == 3
\* largest batch handed to submitBatchHigh / submitBatchLow
MaxBatch == 2
\* bytes per pool capacity unit (the program uses 1024 * 1024)
PoolUnit == 2
\* width of the byte addresses of the model (the program uses 64-bit VkDeviceSize)
AddrBits == 10
\* largest number of buffer pools the GeometryManager creates
MaxPools == 3
\* capacity of the lone BlockAllocator, in units of the alignment
AllocUnits == 6
\* coarsest level of detail
MaxLOD == 1
\* number of chunk keys
MaxChunks == 1
\* largest number of tasks submitted and not yet drained
MaxInFlight == 2
\* largest mesh, in quads (4 vertices and 6 indices each)
MaxQuads == 3
MaxMarks == 2

(***************************************************************************)
(* MeshWorker                                                              *)
(***************************************************************************)
VARIABLES
    ringHigh, ringLow,        \* m_ringHigh, m_ringLow: slot -> task
    headHigh, tailHigh,       \* m_headHigh, m_tailHigh
    headLow, tailLow,         \* m_headLow, m_tailLow
    activeTasks,              \* m_activeTasks
    done,                     \* m_done
    sleepMutex,               \* m_sleepMutex: 0 = free, else the owning worker
    threadCount,              \* m_threadCount
    stopRequested,            \* the stop_token of each jthread
    mainPc,                   \* position of the main (producer) thread
    mPrio, mBatch, mT,        \* submitBatch*: ring, tasks left of the batch, local t
    wPc,                      \* position of each worker in workerLoop
    wH, wTask,                \* workerLoop locals: hH/hL, task
    nextId,                   \* number of the next task to be submitted
    collected,                \* how often each task was returned by collect()
    waited, drained,          \* waitAll returned / collect ran after it, no submit since
    claimedHigh, claimedLow,  \* ring indices in the order of the successful CAS
    highEmptyAtRead           \* per worker: was HIGH empty when it last loaded m_tailHigh

workerVars == << ringHigh, ringLow, headHigh, tailHigh, headLow, tailLow,
                 activeTasks, done, sleepMutex, threadCount, stopRequested, mainPc,
                 mPrio,
                 mBatch, mT, wPc, wH, wTask, nextId, collected, waited,
                 drained, claimedHigh, claimedLow, highEmptyAtRead >>

(***************************************************************************)
(* BlockAllocator (one allocator on its own)                               *)
(***************************************************************************)
VARIABLES
    allocator,                \* a BlockAllocator: freeBlocks, m_allocated_bytes
    allocCapacity,            \* the capacity it was last reset to (0: default-constructed)
    allocLive,                \* the ranges handed out and not yet freed: offset, size
    allocLastOp,              \* the last call made on the allocator
    allocCall,                \* its size argument and the offset it returned or was given
    allocPrev                 \* for an allocate: the range the call before it freed, if it was a free

allocVars == << allocator, allocCapacity, allocLive, allocLastOp, allocCall, allocPrev >>

(***************************************************************************)
(* GeometryManager                                                         *)
(***************************************************************************)
VARIABLES
    pools,                    \* m_pools: vertexAllocator, indexAllocator of each pool
    meshes,                   \* the Mesh objects handed out and not yet freed
    geomThrown                \* the last allocateMeshRaw threw std::runtime_error

geomVars == << pools, meshes, geomThrown >>

(***************************************************************************)
(* ChunkRenderer (with the GeometryManager above and its MeshWorker seen   *)
(* from the main thread: tasks go in, completed tasks come out in m_done)  *)
(***************************************************************************)
VARIABLES
    loaded,                   \* ChunkStorage: the keys whose grid slot holds a chunk
    gridSized,                \* ChunkStorage: m_chunkGrid has its slots (generateWorld ran)
    gridBounds,               \* ChunkStorage: the keys within m_minX..m_maxX, m_minY.., m_minZ..
    dropRefs,                 \* keys of the chunks the last step freed under a running task
    renderData,               \* m_renderData: key -> record, NoRecord if absent
    chunkLOD,                 \* m_chunkLOD: key -> lod, NoLOD if absent
    dirtyPending,             \* m_dirtyPending
    totalVertices,            \* m_totalVertices
    totalIndices,             \* m_totalIndices
    rQueue,                   \* tasks submitted to m_meshWorker and not yet completed
    rDone,                    \* m_meshWorker's m_done, in the order of completion
    drainEscaped,             \* an exception left rebuildDirtyChunks
    drainFailed,              \* keys whose allocateMeshRaw failed in the last drain
    drainStale,               \* keys whose results the last step drained and dropped as stale
    markCalls,                \* per key: the markDirty calls that found a chunk, since the
                              \* last flushDirty
    rendCall                  \* the markDirty or flushDirty call of the last step

storageVars == << loaded, gridSized, gridBounds, dropRefs >>

rendVars == << storageVars, renderData, chunkLOD, dirtyPending, totalVertices,
               totalIndices, rQueue, rDone, drainEscaped, drainFailed, drainStale,
               markCalls, rendCall >>

(***************************************************************************)
(* LODController (with the LOD of one chunk, the chunk at (0, 0, 0))       *)
(***************************************************************************)
VARIABLES
    m_cameraPos,              \* the camera, on the integer grid: x, y, z
    lodParams,                \* m_lodDist0, m_lodDist1, m_lodHysteresis
    lodCurrent,               \* the LOD the chunk has: -1 before the first calculateLOD
    lodArg                    \* currentLOD of the calculateLOD call of the last step

lodVars == << m_cameraPos, lodParams, lodCurrent, lodArg >>

(***************************************************************************)
(* ChunkManager (ChunkManager.cpp: chunks, dirty set and voxel access in   *)
(* one class, its MeshWorker seen as the set of submitted tasks)           *)
(***************************************************************************)
VARIABLES
    cmChunks,                 \* m_chunks: the keys << cx, cy, cz >> that hold a chunk
    cmVoxels,                 \* the world positions that hold a voxel other than VOXEL_AIR
    cmDirtyPending,           \* m_dirtyPending
    cmChunkLOD,               \* m_chunkLOD: the pairs << key, lod >>
    cmQueue,                  \* the tasks submitted to m_meshWorker and not yet taken, oldest first
    cmCall                    \* the setVoxel or getVoxel call of the last step

cmVars == << cmChunks, cmVoxels, cmDirtyPending, cmChunkLOD, cmQueue, cmCall >>

(***************************************************************************)
(* ChunkStorage: voxel access                                              *)
(***************************************************************************)
VARIABLES
    voxels,                   \* per key: the voxel at the probed position of its chunk; of
                              \* a key without chunk: the voxel the terrain will put there
    voxelCall                 \* the getVoxel or setVoxel call of the last step on storage

voxelVars == << voxels, voxelCall >>

(***************************************************************************)
(* GeometryManager::executeBatchUpload (with the requests vector its       *)
(* caller fills from allocateMeshRaw)                                      *)
(***************************************************************************)
VARIABLES
    uploadRequests,           \* the caller's std::vector<UploadRequest>
    uploadCmds                \* what the last executeBatchUpload created and recorded

uploadVars == << uploadRequests, uploadCmds >>

(***************************************************************************)
(* Chunk: the voxels of one chunk and the mesh generateMesh makes of them  *)
(***************************************************************************)
VARIABLES
    chunkVoxels,              \* m_voxels, by idx(x, y, z)
    meshCall                  \* the last generateMesh call: lod, neighbours, returned mesh

meshVars == << chunkVoxels, meshCall >>

(***************************************************************************)
(* ChunkRenderer::render: the records of a frame and its counters          *)
(***************************************************************************)
VARIABLES
    drawData,                 \* m_renderData of a world of MaxRecords chunks
    visibleCount,             \* m_visibleCount
    culledCount,              \* m_culledCount
    visibleVertices,          \* m_visibleVertices
    renderCall                \* the last call: its name and, for render, the frustum

drawVars == << drawData, visibleCount, culledCount, visibleVertices, renderCall >>

(***************************************************************************)
(* worldToChunk: the split of a world coordinate                           *)
(***************************************************************************)
VARIABLES
    splitCall                 \* the last worldToChunk call: wx and the cx, lx it wrote

splitVars == << splitCall >>

(***************************************************************************)
(* ChunkStorage::createChunkIfMissing, called with any coordinate          *)
(***************************************************************************)
VARIABLES
    createCall                \* the last createChunkIfMissing call: its key, the result of
                              \* the bounds test and the slot it read

createVars == << createCall >>

(***************************************************************************)
(* MeshWorker::workerLoop between taking a task and appending it to m_done *)
(***************************************************************************)
VARIABLES
    running                   \* per worker thread: the task it has taken from a ring and is
                              \* executing (lines 156-164), NoTaskFor when it executes none

raceVars == << running >>

moreVars == << uploadVars, meshVars, drawVars, splitVars, createVars, raceVars >>

\* the components added to the worker, the allocator, the pools and the renderer
extVars == << lodVars, cmVars, voxelVars, moreVars >>

nonWorkerVars == << allocVars, geomVars, rendVars, extVars >>

vars == << workerVars, allocVars, geomVars, rendVars, extVars >>

RECURSIVE Pow2(_)
Pow2(n) == IF n = 0 THEN 1 ELSE 2 * Pow2(n - 1)

RECURSIVE BitAnd(_, _)
BitAnd(a, b) ==
    IF a = 0 \/ b = 0 THEN 0
    ELSE (a % 2) * (b % 2) + 2 * BitAnd(a \div 2, b \div 2)

RING_SIZE == Pow2(RingBits)
RING_MASK == RING_SIZE - 1

Workers == 1..NWorkers
\* the threads started by the constructor, lines 52-61
Threads == 1..threadCount
NoTask == 0
TornTask == MaxTasks + 1
TaskValues == 0..(MaxTasks + 1)

\* the tasks nextId .. nextId + n - 1, in submission order
RECURSIVE NewBatch(_, _)
NewBatch(first, n) == IF n = 0 THEN << >> ELSE << first >> \o NewBatch(first + 1, n - 1)

WorkerInit ==
    /\ ringHigh = [s \in 0..RING_MASK |-> NoTask]
    /\ ringLow = [s \in 0..RING_MASK |-> NoTask]
    /\ headHigh = 0 /\ tailHigh = 0
    /\ headLow = 0 /\ tailLow = 0
    /\ activeTasks = 0
    /\ done = << >>
    /\ sleepMutex = 0
    /\ threadCount \in 1..NWorkers
    /\ stopRequested = [w \in Workers |-> FALSE]
    /\ mainPc = "idle"
    /\ mPrio = "H" /\ mBatch = << >> /\ mT = 0
    /\ wPc = [w \in Workers |-> "top"]
    /\ wH = [w \in Workers |-> 0]
    /\ wTask = [w \in Workers |-> NoTask]
    /\ nextId = 1
    /\ collected = [i \in TaskValues |-> 0]
    /\ waited = FALSE /\ drained = FALSE
    /\ claimedHigh = << >> /\ claimedLow = << >>
    /\ highEmptyAtRead = [w \in Workers |-> FALSE]

ghostUnchangedMain == UNCHANGED << claimedHigh, claimedLow, highEmptyAtRead >>
ringsUnchanged == UNCHANGED << ringHigh, ringLow, headHigh, tailHigh, headLow, tailLow >>
workerLocalsUnchanged == UNCHANGED << wH, wTask, sleepMutex, threadCount, stopRequested >>
submitUnchanged == UNCHANGED << mPrio, mBatch, mT, nextId >>

(***************************************************************************)
(* Main thread: submitBatchHigh / submitBatchLow, lines 72-105.            *)
(***************************************************************************)
\* lines 73-76 (93-94): fetch_add on m_activeTasks, load of the own tail
SubmitBegin(prio, n) ==
    /\ mainPc = "idle"
    /\ nextId + n - 1 <= MaxTasks
    /\ activeTasks' = activeTasks + n
    /\ mBatch' = NewBatch(nextId, n)
    /\ nextId' = nextId + n
    /\ mPrio' = prio
    /\ mT' = IF prio = "H" THEN tailHigh ELSE tailLow
    /\ mainPc' = "pCheck"
    /\ waited' = FALSE /\ drained' = FALSE
    /\ ringsUnchanged /\ workerLocalsUnchanged /\ ghostUnchangedMain
    /\ UNCHANGED << done, wPc, collected >>
    /\ UNCHANGED nonWorkerVars

submitBatchHigh == \E n \in 1..MaxBatch : SubmitBegin("H", n)

submitBatchLow == \E n \in 1..MaxBatch : SubmitBegin("L", n)

\* the ring has room for the task at index t (the negation of the yield loop's test)
RingHasRoom(t, head) == t - head < RING_SIZE

\* lines 79-81 (97-99): leave the yield loop once the ring has room
SubmitWaitSlot ==
    /\ mainPc = "pCheck"
    /\ RingHasRoom(mT, IF mPrio = "H" THEN headHigh ELSE headLow)
    /\ mainPc' = "pWrite"
    /\ ringsUnchanged /\ workerLocalsUnchanged /\ ghostUnchangedMain /\ submitUnchanged
    /\ UNCHANGED << activeTasks, done, wPc, collected, waited, drained >>
    /\ UNCHANGED nonWorkerVars

\* line 82 (100): m_ring[t & RING_MASK] = std::move(task)
SubmitWriteSlot ==
    /\ mainPc = "pWrite"
    /\ IF mPrio = "H"
       THEN /\ ringHigh' = [ringHigh EXCEPT ![BitAnd(mT, RING_MASK)] = Head(mBatch)]
            /\ UNCHANGED ringLow
       ELSE /\ ringLow' = [ringLow EXCEPT ![BitAnd(mT, RING_MASK)] = Head(mBatch)]
            /\ UNCHANGED ringHigh
    /\ mainPc' = "pStore"
    /\ UNCHANGED << headHigh, tailHigh, headLow, tailLow >>
    /\ workerLocalsUnchanged /\ ghostUnchangedMain /\ submitUnchanged
    /\ UNCHANGED << activeTasks, done, wPc, collected, waited, drained >>
    /\ UNCHANGED nonWorkerVars

\* lines 83-84 (101-102): t++, release store of the tail; next task of the batch
SubmitStoreTail ==
    /\ mainPc = "pStore"
    /\ mT' = mT + 1
    /\ IF mPrio = "H"
       THEN tailHigh' = mT + 1 /\ UNCHANGED tailLow
       ELSE tailLow' = mT + 1 /\ UNCHANGED tailHigh
    /\ mBatch' = Tail(mBatch)
    /\ mainPc' = IF Tail(mBatch) = << >> THEN "pNotify" ELSE "pCheck"
    /\ UNCHANGED << ringHigh, ringLow, headHigh, headLow, mPrio, nextId >>
    /\ workerLocalsUnchanged /\ ghostUnchangedMain
    /\ UNCHANGED << activeTasks, done, wPc, collected, waited, drained >>
    /\ UNCHANGED nonWorkerVars

\* line 86 (104): m_cv.notify_all() wakes the workers blocked in m_cv.wait
SubmitNotify ==
    /\ mainPc = "pNotify"
    /\ wPc' = [w \in Workers |-> IF wPc[w] = "blocked" THEN "sLock" ELSE wPc[w]]
    /\ mainPc' = "idle"
    /\ mPrio' = "H" /\ mT' = 0
    /\ ringsUnchanged /\ workerLocalsUnchanged /\ ghostUnchangedMain
    /\ UNCHANGED << mBatch, nextId, activeTasks, done, collected, waited, drained >>
    /\ UNCHANGED nonWorkerVars

(***************************************************************************)
(* Main thread: waitAll, lines 107-112, and collect, lines 114-119.        *)
(***************************************************************************)
\* line 108: take m_doneWaitMutex (only the main thread ever takes it)
waitAll ==
    /\ mainPc = "idle"
    /\ ~waited
    /\ mainPc' = "waPred"
    /\ ringsUnchanged /\ workerLocalsUnchanged /\ ghostUnchangedMain /\ submitUnchanged
    /\ UNCHANGED << activeTasks, done, wPc, collected, waited, drained >>
    /\ UNCHANGED nonWorkerVars

\* line 110: the predicate of m_doneCv.wait
WaitAllPredicate == activeTasks = 0

\* lines 109-111: evaluate the predicate; return when it holds
WaitAllCheck ==
    /\ mainPc = "waPred"
    /\ IF WaitAllPredicate
       THEN mainPc' = "idle" /\ waited' = TRUE
       ELSE mainPc' = "waWait" /\ UNCHANGED waited
    /\ ringsUnchanged /\ workerLocalsUnchanged /\ ghostUnchangedMain /\ submitUnchanged
    /\ UNCHANGED << activeTasks, done, wPc, collected, drained >>
    /\ UNCHANGED nonWorkerVars

\* line 109: the predicate was false: block on m_doneCv
WaitAllBlock ==
    /\ mainPc = "waWait"
    /\ mainPc' = "waBlocked"
    /\ ringsUnchanged /\ workerLocalsUnchanged /\ ghostUnchangedMain /\ submitUnchanged
    /\ UNCHANGED << activeTasks, done, wPc, collected, waited, drained >>
    /\ UNCHANGED nonWorkerVars

RECURSIVE CountAll(_, _)
CountAll(cnt, seq) ==
    IF seq = << >> THEN cnt
    ELSE CountAll([cnt EXCEPT ![Head(seq)] = @ + 1], Tail(seq))

\* lines 114-119: move m_done out under m_doneMutex
collect ==
    /\ mainPc = "idle"
    /\ done # << >> \/ (waited /\ ~drained)
    /\ collected' = CountAll(collected, done)
    /\ done' = << >>
    /\ drained' = waited
    /\ ringsUnchanged /\ workerLocalsUnchanged /\ ghostUnchangedMain /\ submitUnchanged
    /\ UNCHANGED << activeTasks, mainPc, wPc, waited >>
    /\ UNCHANGED nonWorkerVars

(***************************************************************************)
(* Worker threads: workerLoop, lines 125-185.                              *)
(***************************************************************************)
mainUnchanged == UNCHANGED << mainPc, mPrio, mBatch, mT, nextId, collected, waited, drained >>

\* the loop test with an off-by-one: the last committed task is not seen
RingHasWork_OffByOne(h, t) == h + 1 < t

\* lines 133, 146: the loop test hH < tH
RingHasWork(h, t) == h < t

\* a head update that does not compare: a plain store of hH + 1
CasSucceeds_Blind(current, expected) == TRUE

\* lines 134, 147: compare_exchange on the head
CasSucceeds(current, expected) == current = expected

\* lines 126-131: stop test, fresh task, load of m_headHigh
WorkerTop(w) ==
    /\ wPc[w] = "top"
    /\ IF stopRequested[w]
       THEN wPc' = [wPc EXCEPT ![w] = "exited"] /\ UNCHANGED wH
       ELSE /\ wPc' = [wPc EXCEPT ![w] = "hLoadT"]
            /\ wH' = [wH EXCEPT ![w] = headHigh]
    /\ ringsUnchanged /\ mainUnchanged
    /\ UNCHANGED << activeTasks, done, sleepMutex, threadCount, stopRequested, wTask,
                    claimedHigh, claimedLow, highEmptyAtRead >>
    /\ UNCHANGED nonWorkerVars

\* lines 132-133, 139: load m_tailHigh, test hH < tH
WorkerHighLoadTail(w) ==
    /\ wPc[w] = "hLoadT"
    /\ highEmptyAtRead' = [highEmptyAtRead EXCEPT ![w] = (headHigh >= tailHigh)]
    /\ wPc' = [wPc EXCEPT ![w] = IF RingHasWork(wH[w], tailHigh) THEN "hCas" ELSE "lLoadH"]
    /\ ringsUnchanged /\ mainUnchanged
    /\ UNCHANGED << activeTasks, done, sleepMutex, threadCount, stopRequested, wH, wTask,
                    claimedHigh, claimedLow >>
    /\ UNCHANGED nonWorkerVars

\* line 134: CAS m_headHigh from hH to hH + 1; a failure reloads hH
WorkerHighCas(w) ==
    /\ wPc[w] = "hCas"
    /\ IF CasSucceeds(headHigh, wH[w])
       THEN /\ headHigh' = wH[w] + 1
            /\ claimedHigh' = Append(claimedHigh, wH[w])
            /\ wPc' = [wPc EXCEPT ![w] = "hMove"]
            /\ UNCHANGED wH
       ELSE /\ wH' = [wH EXCEPT ![w] = headHigh]
            /\ wPc' = [wPc EXCEPT ![w] = "hLoadT"]
            /\ UNCHANGED << headHigh, claimedHigh >>
    /\ mainUnchanged
    /\ UNCHANGED << ringHigh, ringLow, tailHigh, headLow, tailLow, activeTasks, done,
                    sleepMutex, threadCount, stopRequested, wTask, claimedLow, highEmptyAtRead >>
    /\ UNCHANGED nonWorkerVars

\* what a worker can read from slot h & RING_MASK of a ring: the slot's value,
\* or a torn value when the producer is writing that very slot (a data race)
SlotRead(ring, prio, h) ==
    { ring[BitAnd(h, RING_MASK)] } \cup
    ( IF mainPc = "pWrite" /\ mPrio = prio
         /\ BitAnd(mT, RING_MASK) = BitAnd(h, RING_MASK)
      THEN { TornTask } ELSE { } )

\* line 135: task = std::move(m_ringHigh[hH & RING_MASK])
WorkerHighMove(w) ==
    /\ wPc[w] = "hMove"
    /\ \E v \in SlotRead(ringHigh, "H", wH[w]) : wTask' = [wTask EXCEPT ![w] = v]
    /\ wH' = [wH EXCEPT ![w] = 0]
    /\ wPc' = [wPc EXCEPT ![w] = "exec"]
    /\ ringsUnchanged /\ mainUnchanged
    /\ UNCHANGED << activeTasks, done, sleepMutex, threadCount, stopRequested,
                    claimedHigh, claimedLow, highEmptyAtRead >>
    /\ UNCHANGED nonWorkerVars

\* lines 143-144: nothing taken from HIGH: load m_headLow
WorkerLowLoadHead(w) ==
    /\ wPc[w] = "lLoadH"
    /\ wH' = [wH EXCEPT ![w] = headLow]
    /\ wPc' = [wPc EXCEPT ![w] = "lLoadT"]
    /\ ringsUnchanged /\ mainUnchanged
    /\ UNCHANGED << activeTasks, done, sleepMutex, threadCount, stopRequested, wTask,
                    claimedHigh, claimedLow, highEmptyAtRead >>
    /\ UNCHANGED nonWorkerVars

\* lines 145-146, 152: load m_tailLow, test hL < tL
WorkerLowLoadTail(w) ==
    /\ wPc[w] = "lLoadT"
    /\ IF RingHasWork(wH[w], tailLow)
       THEN /\ wPc' = [wPc EXCEPT ![w] = "lCas"]
            /\ UNCHANGED << wH, highEmptyAtRead >>
       ELSE /\ wPc' = [wPc EXCEPT ![w] = "sLock"]
            /\ wH' = [wH EXCEPT ![w] = 0]
            /\ highEmptyAtRead' = [highEmptyAtRead EXCEPT ![w] = FALSE]
    /\ ringsUnchanged /\ mainUnchanged
    /\ UNCHANGED << activeTasks, done, sleepMutex, threadCount, stopRequested, wTask,
                    claimedHigh, claimedLow >>
    /\ UNCHANGED nonWorkerVars

\* line 147: CAS m_headLow from hL to hL + 1; a failure reloads hL
WorkerLowCas(w) ==
    /\ wPc[w] = "lCas"
    /\ IF CasSucceeds(headLow, wH[w])
       THEN /\ headLow' = wH[w] + 1
            /\ claimedLow' = Append(claimedLow, wH[w])
            /\ wPc' = [wPc EXCEPT ![w] = "lMove"]
            /\ UNCHANGED wH
       ELSE /\ wH' = [wH EXCEPT ![w] = headLow]
            /\ wPc' = [wPc EXCEPT ![w] = "lLoadT"]
            /\ UNCHANGED << headLow, claimedLow >>
    /\ mainUnchanged
    /\ UNCHANGED << ringHigh, ringLow, headHigh, tailHigh, tailLow, activeTasks, done,
                    sleepMutex, threadCount, stopRequested, wTask, claimedHigh, highEmptyAtRead >>
    /\ UNCHANGED nonWorkerVars

\* line 148: task = std::move(m_ringLow[hL & RING_MASK])
WorkerLowMove(w) ==
    /\ wPc[w] = "lMove"
    /\ \E v \in SlotRead(ringLow, "L", wH[w]) : wTask' = [wTask EXCEPT ![w] = v]
    /\ wH' = [wH EXCEPT ![w] = 0]
    /\ highEmptyAtRead' = [highEmptyAtRead EXCEPT ![w] = FALSE]
    /\ wPc' = [wPc EXCEPT ![w] = "exec"]
    /\ ringsUnchanged /\ mainUnchanged
    /\ UNCHANGED << activeTasks, done, sleepMutex, threadCount, stopRequested,
                    claimedHigh, claimedLow >>
    /\ UNCHANGED nonWorkerVars

\* lines 156-170: run the task, append it to m_done under m_doneMutex
WorkerExecute(w) ==
    /\ wPc[w] = "exec"
    /\ done' = Append(done, wTask[w])
    /\ wTask' = [wTask EXCEPT ![w] = NoTask]
    /\ wPc' = [wPc EXCEPT ![w] = "dec"]
    /\ ringsUnchanged /\ mainUnchanged
    /\ UNCHANGED << activeTasks, sleepMutex, threadCount, stopRequested, wH,
                    claimedHigh, claimedLow, highEmptyAtRead >>
    /\ UNCHANGED nonWorkerVars

\* lines 172-173: remaining = m_activeTasks.fetch_sub(1) - 1
WorkerDecrement(w) ==
    /\ wPc[w] = "dec"
    /\ activeTasks' = activeTasks - 1
    /\ wPc' = [wPc EXCEPT ![w] = IF activeTasks - 1 = 0 THEN "notifyDone" ELSE "top"]
    /\ ringsUnchanged /\ mainUnchanged
    /\ UNCHANGED << done, sleepMutex, threadCount, stopRequested, wH, wTask,
                    claimedHigh, claimedLow, highEmptyAtRead >>
    /\ UNCHANGED nonWorkerVars

\* line 174: m_doneCv.notify_all() wakes the main thread if it is blocked in waitAll
WorkerNotifyDone(w) ==
    /\ wPc[w] = "notifyDone"
    /\ mainPc' = IF mainPc = "waBlocked" THEN "waPred" ELSE mainPc
    /\ wPc' = [wPc EXCEPT ![w] = "top"]
    /\ ringsUnchanged
    /\ UNCHANGED << mPrio, mBatch, mT, nextId, collected, waited, drained >>
    /\ UNCHANGED << activeTasks, done, sleepMutex, threadCount, stopRequested, wH, wTask,
                    claimedHigh, claimedLow, highEmptyAtRead >>
    /\ UNCHANGED nonWorkerVars

\* lines 179-181: the predicate of m_cv.wait
SleepPredicate(w) ==
    \/ headHigh < tailHigh
    \/ headLow < tailLow
    \/ stopRequested[w]

\* lines 177-183: take m_sleepMutex (also the re-lock after a wake-up) and evaluate
\* the predicate; if it holds, unlock and loop, else keep the mutex until blocking
WorkerSleepCheck(w) ==
    /\ wPc[w] = "sLock"
    /\ sleepMutex = 0
    /\ IF SleepPredicate(w)
       THEN UNCHANGED sleepMutex /\ wPc' = [wPc EXCEPT ![w] = "top"]
       ELSE sleepMutex' = w /\ wPc' = [wPc EXCEPT ![w] = "sWait"]
    /\ ringsUnchanged /\ mainUnchanged
    /\ UNCHANGED << activeTasks, done, threadCount, stopRequested, wH, wTask,
                    claimedHigh, claimedLow, highEmptyAtRead >>
    /\ UNCHANGED nonWorkerVars

\* line 178: the predicate was false: release m_sleepMutex and block on m_cv
WorkerSleepBlock(w) ==
    /\ wPc[w] = "sWait"
    /\ sleepMutex' = 0
    /\ wPc' = [wPc EXCEPT ![w] = "blocked"]
    /\ ringsUnchanged /\ mainUnchanged
    /\ UNCHANGED << activeTasks, done, threadCount, stopRequested, wH, wTask,
                    claimedHigh, claimedLow, highEmptyAtRead >>
    /\ UNCHANGED nonWorkerVars

(***************************************************************************)
(* Main thread: ~MeshWorker, lines 63-69.                                  *)
(***************************************************************************)
\* line 63: the MeshWorker is destroyed
destructor ==
    /\ mainPc = "idle"
    /\ mainPc' = "dStop"
    /\ ringsUnchanged /\ workerLocalsUnchanged /\ ghostUnchangedMain /\ submitUnchanged
    /\ UNCHANGED << activeTasks, done, wPc, collected, waited, drained >>
    /\ UNCHANGED nonWorkerVars

\* lines 64-66: t.request_stop() for the next thread of m_threads
DestructorRequestStop ==
    /\ mainPc = "dStop"
    /\ \E w \in Threads :
          /\ ~stopRequested[w]
          /\ \A v \in Threads : v < w => stopRequested[v]
          /\ stopRequested' = [stopRequested EXCEPT ![w] = TRUE]
          /\ mainPc' = IF w = threadCount THEN "dNotify" ELSE "dStop"
    /\ ringsUnchanged /\ ghostUnchangedMain /\ submitUnchanged
    /\ UNCHANGED << wH, wTask, sleepMutex, threadCount >>
    /\ UNCHANGED << activeTasks, done, wPc, collected, waited, drained >>
    /\ UNCHANGED nonWorkerVars

\* line 67: m_cv.notify_all(), made without m_sleepMutex
DestructorNotify ==
    /\ mainPc = "dNotify"
    /\ wPc' = [w \in Workers |-> IF wPc[w] = "blocked" THEN "sLock" ELSE wPc[w]]
    /\ mainPc' = "dJoin"
    /\ ringsUnchanged /\ workerLocalsUnchanged /\ ghostUnchangedMain /\ submitUnchanged
    /\ UNCHANGED << activeTasks, done, collected, waited, drained >>
    /\ UNCHANGED nonWorkerVars

\* line 68: the jthreads are destroyed: every thread is joined
DestructorJoin ==
    /\ mainPc = "dJoin"
    /\ \A w \in Threads : wPc[w] = "exited"
    /\ mainPc' = "destroyed"
    /\ ringsUnchanged /\ workerLocalsUnchanged /\ ghostUnchangedMain /\ submitUnchanged
    /\ UNCHANGED << activeTasks, done, wPc, collected, waited, drained >>
    /\ UNCHANGED nonWorkerVars

(***************************************************************************)
(* Claims about MeshWorker.                                                *)
(***************************************************************************)
Submitted == 1..(nextId - 1)

\* C1: once waitAll has returned and collect has run (no submission since),
\* every submitted task was returned by collect exactly once, and nothing else was.
C1_EveryTaskCollectedOnce ==
    drained => /\ \A i \in Submitted : collected[i] = 1
               /\ \A i \in TaskValues \ Submitted : collected[i] = 0

AllWorkersBlocked == \A w \in Threads : wPc[w] = "blocked"

\* C2: a call of waitAll returns: the main thread is never left blocked on m_doneCv
\* with m_activeTasks = 0 and no worker about to notify m_doneCv.
C2_WaitAllReturns ==
    ~ ( /\ mainPc = "waBlocked"
        /\ activeTasks = 0
        /\ \A w \in Threads : wPc[w] # "notifyDone" )

\* C3: a committed task is claimed: the pool is never left with every worker
\* blocked on m_cv while a ring holds a committed, unclaimed task, the producer
\* has finished its notify and the main thread waits for the tasks to finish.
C3_CommittedTaskIsClaimed ==
    ~ ( /\ AllWorkersBlocked
        /\ headHigh < tailHigh \/ headLow < tailLow
        /\ mainPc = "waBlocked" )

\* the producer is about to write the slot that worker w has claimed in the ring
\* prio and has not yet moved out
WritesClaimedSlot(w, prio, movePc) ==
    /\ mainPc = "pWrite" /\ mPrio = prio
    /\ wPc[w] = movePc
    /\ BitAnd(mT, RING_MASK) = BitAnd(wH[w], RING_MASK)

\* C4: the producer never writes a slot that a worker has CAS-claimed and not yet
\* moved out, and a worker reads only slots below the committed tail.
C4_SlotsNeedNoLock ==
    \A w \in Threads :
        /\ ~ WritesClaimedSlot(w, "H", "hMove")
        /\ ~ WritesClaimedSlot(w, "L", "lMove")
        /\ wPc[w] = "hMove" => wH[w] < tailHigh
        /\ wPc[w] = "lMove" => wH[w] < tailLow

\* C5 as stated: whenever a worker claims a LOW task (m_headLow advances), the HIGH
\* ring holds no committed, unclaimed task at that moment.
C5_LowClaimOnlyWhenHighEmpty ==
    [][ headLow' = headLow + 1 => headHigh >= tailHigh ]_vars

\* C5 as amended: a worker claims a LOW task only if the HIGH ring held no
\* committed, unclaimed task when the worker last loaded m_tailHigh in that iteration.
C5_LowClaimAfterHighSeenEmpty ==
    \A w \in Threads : wPc[w] \in { "lLoadH", "lLoadT", "lCas", "lMove" } => highEmptyAtRead[w]

\* a worker holds a LOW claim while a HIGH task is committed and unclaimed
C5_Witness ==
    \E w \in Threads : wPc[w] = "lMove" /\ headHigh < tailHigh

InIndexOrder(claimed) == \A k \in 1..Len(claimed) : claimed[k] = k - 1

\* C6: within a ring the tasks are claimed in the order of their commit: the k-th
\* successful CAS on a ring's head claims ring index k - 1, the k-th committed task.
C6_ClaimsInCommitOrder ==
    InIndexOrder(claimedHigh) /\ InIndexOrder(claimedLow)

\* two workers hold claims on two tasks of the HIGH ring at the same time
C6_Witness ==
    \E w1, w2 \in Threads :
        /\ w1 # w2
        /\ wPc[w1] = "hMove" /\ wPc[w2] = "hMove"
        /\ Len(claimedHigh) >= 2


(***************************************************************************)
(* BlockAllocator, GeometryManager.hpp lines 16-68.                        *)
(***************************************************************************)
\* the default alignment of allocate and free, lines 27 and 45
ALLOC_ALIGN == 16
\* static_cast<VkDeviceSize>(-1)
NONE == -1
AddrMask == Pow2(AddrBits) - 1

VERTEX_BUFFER_SIZE == 64 * PoolUnit
INDEX_BUFFER_SIZE == 32 * PoolUnit

\* lines 28, 46: (size + alignment - 1) & ~(alignment - 1)
AlignUp(size, alignment) == BitAnd(size + alignment - 1, AddrMask - (alignment - 1))

Block(o, sz) == [offset |-> o, size |-> sz]

\* lines 22, 20: BlockAllocator() = default
DefaultAllocator == [freeBlocks |-> << >>, m_allocated_bytes |-> 0]

RemoveAt(seq, i) == SubSeq(seq, 1, i - 1) \o SubSeq(seq, i + 1, Len(seq))

\* a scan that keeps going and settles on the last block that fits
RECURSIVE FirstFit_LastFit(_, _, _)
FirstFit_LastFit(blocks, i, size) ==
    IF i > Len(blocks) THEN 0
    ELSE IF FirstFit_LastFit(blocks, i + 1, size) # 0 THEN FirstFit_LastFit(blocks, i + 1, size)
    ELSE IF blocks[i].size >= size THEN i
    ELSE 0

\* lines 29-30: the first block, from position i on, with it->size >= size; 0 if none
RECURSIVE FirstFit(_, _, _)
FirstFit(blocks, i, size) ==
    IF i > Len(blocks) THEN 0
    ELSE IF blocks[i].size >= size THEN i
    ELSE FirstFit(blocks, i + 1, size)

\* allocate that returns the offset of the block it found and leaves the block free
BlockAllocate_KeepsBlock(a, size, alignment) ==
    LET sz == AlignUp(size, alignment)
        i == FirstFit(a.freeBlocks, 1, sz)
    IN  IF i = 0
        THEN [alloc |-> a, offset |-> NONE]
        ELSE [alloc |-> [a EXCEPT !.m_allocated_bytes = @ + sz],
              offset |-> a.freeBlocks[i].offset]

\* lines 27-43: allocate(size, alignment): the allocator afterwards and the returned offset
BlockAllocate(a, size, alignment) ==
    LET sz == AlignUp(size, alignment)
        i == FirstFit(a.freeBlocks, 1, sz)
    IN  IF i = 0
        THEN [alloc |-> a, offset |-> NONE]
        ELSE LET b == a.freeBlocks[i]
             IN [alloc |->
                   [freeBlocks |->
                      IF b.size = sz
                      THEN RemoveAt(a.freeBlocks, i)
                      ELSE [a.freeBlocks EXCEPT ![i] = Block(b.offset + sz, b.size - sz)],
                    m_allocated_bytes |-> a.m_allocated_bytes + sz],
                 offset |-> b.offset]

\* insert b into a list sorted by offset, after the blocks with offset <= b.offset
RECURSIVE InsertSorted(_, _)
InsertSorted(sorted, b) ==
    IF sorted = << >> THEN << b >>
    ELSE IF b.offset < Head(sorted).offset THEN << b >> \o sorted
    ELSE << Head(sorted) >> \o InsertSorted(Tail(sorted), b)

\* free without the std::sort: the freed block stays at the end of the list
SortByOffset_Unsorted(blocks) == blocks

\* lines 49-51: std::sort by offset
RECURSIVE SortByOffset(_)
SortByOffset(blocks) ==
    IF blocks = << >> THEN << >>
    ELSE InsertSorted(SortByOffset(SubSeq(blocks, 1, Len(blocks) - 1)), blocks[Len(blocks)])

\* the coalescing loop with ++i also after a merge: a chain of three is not merged
RECURSIVE Coalesce_SkipAfterMerge(_, _)
Coalesce_SkipAfterMerge(blocks, i) ==
    IF i + 1 > Len(blocks) THEN blocks
    ELSE IF blocks[i].offset + blocks[i].size = blocks[i + 1].offset
         THEN Coalesce_SkipAfterMerge(
                  RemoveAt([blocks EXCEPT ![i] = Block(@.offset, @.size + blocks[i + 1].size)],
                           i + 1),
                  i + 1)
         ELSE Coalesce_SkipAfterMerge(blocks, i + 1)

\* lines 53-60: merge each block with its successor while they are adjacent
\* (positions are 1-based here, the loop's i is 0-based)
RECURSIVE Coalesce(_, _)
Coalesce(blocks, i) ==
    IF i + 1 > Len(blocks) THEN blocks
    ELSE IF blocks[i].offset + blocks[i].size = blocks[i + 1].offset
         THEN Coalesce(
                  RemoveAt([blocks EXCEPT ![i] = Block(@.offset, @.size + blocks[i + 1].size)],
                           i + 1),
                  i)
         ELSE Coalesce(blocks, i + 1)

\* free that subtracts the size as passed, not the rounded size
BlockFree_Unrounded(a, offset, size, alignment) ==
    LET sz == AlignUp(size, alignment)
    IN  [freeBlocks |-> Coalesce(SortByOffset(Append(a.freeBlocks, Block(offset, sz))), 1),
         m_allocated_bytes |-> a.m_allocated_bytes - size]

\* lines 45-61: free(offset, size, alignment)
BlockFree(a, offset, size, alignment) ==
    LET sz == AlignUp(size, alignment)
    IN  [freeBlocks |-> Coalesce(SortByOffset(Append(a.freeBlocks, Block(offset, sz))), 1),
         m_allocated_bytes |-> a.m_allocated_bytes - sz]

\* lines 63-67: reset(capacity)
BlockReset(capacity) ==
    [freeBlocks |-> IF capacity > 0 THEN << Block(0, capacity) >> ELSE << >>,
     m_allocated_bytes |-> 0]

\* the sizes and capacities the lone allocator is exercised with
AllocSizes == { 1, 16, 24, 40 }
AllocCapacities == { ALLOC_ALIGN * AllocUnits, ALLOC_ALIGN * (AllocUnits \div 2) }

NoAllocCall == [size |-> 0, offset |-> NONE]

AllocInit ==
    /\ allocator = DefaultAllocator
    /\ allocCapacity = 0
    /\ allocLive = { }
    /\ allocLastOp = "none"
    /\ allocCall = NoAllocCall
    /\ allocPrev = NoAllocCall

nonAllocVars == << workerVars, geomVars, rendVars, extVars >>

\* a call of allocate(size); a returned NONE leaves the allocator as it was
allocate ==
    \E size \in AllocSizes :
        LET r == BlockAllocate(allocator, size, ALLOC_ALIGN)
        IN  /\ allocator' = r.alloc
            /\ allocLive' = IF r.offset = NONE THEN allocLive
                            ELSE allocLive \cup { [offset |-> r.offset, size |-> size] }
            /\ allocLastOp' = IF r.offset = NONE THEN "allocate-failed" ELSE "allocate"
            /\ allocCall' = [size |-> size, offset |-> r.offset]
            /\ allocPrev' = IF allocLastOp = "free" THEN allocCall ELSE NoAllocCall
            /\ UNCHANGED allocCapacity
            /\ UNCHANGED nonAllocVars

\* a call of free with an offset allocate returned and the size it was asked for
free ==
    \E r \in allocLive :
        /\ allocator' = BlockFree(allocator, r.offset, r.size, ALLOC_ALIGN)
        /\ allocLive' = allocLive \ { r }
        /\ allocLastOp' = "free"
        /\ allocCall' = [size |-> r.size, offset |-> r.offset]
        /\ allocPrev' = NoAllocCall
        /\ UNCHANGED allocCapacity
        /\ UNCHANGED nonAllocVars

\* a call of reset(capacity): every range handed out before is void
reset ==
    \E capacity \in AllocCapacities :
        /\ allocator' = BlockReset(capacity)
        /\ allocCapacity' = capacity
        /\ allocLive' = { }
        /\ allocLastOp' = "reset"
        /\ allocCall' = NoAllocCall
        /\ allocPrev' = NoAllocCall
        /\ UNCHANGED nonAllocVars

AllocNext ==
    \/ allocate
    \/ free
    \/ reset

(***************************************************************************)
(* Claims about BlockAllocator.                                            *)
(***************************************************************************)
RECURSIVE SumSizes(_)
SumSizes(blocks) ==
    IF blocks = << >> THEN 0 ELSE Head(blocks).size + SumSizes(Tail(blocks))

\* C7: allocated_bytes plus the sizes of all free blocks equals the capacity.
C7_Conservation ==
    allocator.m_allocated_bytes + SumSizes(allocator.freeBlocks) = allocCapacity

\* a range was freed while others are live, and the free list is in two pieces
C7_Witness ==
    /\ allocLastOp = "free"
    /\ allocLive # { }
    /\ Len(allocator.freeBlocks) >= 2
    /\ allocator.m_allocated_bytes > 0

\* C8: the free list is strictly increasing by offset and no two free blocks touch.
C8_SortedAndCoalesced ==
    \A i \in 1..(Len(allocator.freeBlocks) - 1) :
        allocator.freeBlocks[i].offset + allocator.freeBlocks[i].size
            < allocator.freeBlocks[i + 1].offset

\* a free has merged the freed range with its neighbours into one block again
C8_Witness ==
    /\ allocLastOp = "free"
    /\ allocLive = { }
    /\ allocator.freeBlocks = << Block(0, ALLOC_ALIGN * AllocUnits) >>

\* C20: after every outstanding allocation has been freed, in any order, the free
\* list is the one block {0, capacity} and allocated_bytes is 0.
C20_AllFreedIsOneBlock ==
    allocLastOp = "free" /\ allocLive = { } =>
        /\ allocator.freeBlocks = << Block(0, allocCapacity) >>
        /\ allocator.m_allocated_bytes = 0

\* the last outstanding range was freed: nothing is allocated any more
C20_Witness ==
    /\ allocLastOp = "free"
    /\ allocLive = { }
    /\ allocCapacity > 0
    /\ allocator.m_allocated_bytes = 0

\* size rounded up to the next multiple of the alignment
RoundedUp(size, alignment) ==
    CHOOSE m \in 0..(size + alignment) : m % alignment = 0 /\ m >= size /\ m < size + alignment

BlocksOf(a) == { a.freeBlocks[i] : i \in 1..Len(a.freeBlocks) }

\* the free blocks of a that can hold sz bytes
Fitting(a, sz) == { b \in BlocksOf(a) : b.size >= sz }

\* C21: allocate returns the offset of the lowest-offset free block whose size is at
\* least the rounded size, removes that block when it fits exactly and otherwise
\* shrinks it from the front, and returns NONE and changes nothing when no block
\* fits; so an allocate right after a free of a range that was not adjacent to free
\* space, of the same size and with no lower fitting block, returns the freed offset.
C21_FirstFit ==
    [][allocLastOp' \in { "allocate", "allocate-failed" } =>
          LET sz == RoundedUp(allocCall'.size, ALLOC_ALIGN)
              fits == Fitting(allocator, sz)
          IN  /\ fits = { } =>
                    /\ allocCall'.offset = NONE
                    /\ allocator' = allocator
              /\ fits # { } =>
                    LET b == CHOOSE x \in fits : \A y \in fits : x.offset <= y.offset
                    IN  /\ allocCall'.offset = b.offset
                        /\ BlocksOf(allocator') =
                              (BlocksOf(allocator) \ { b }) \cup
                                  (IF b.size = sz THEN { }
                                   ELSE { Block(b.offset + sz, b.size - sz) })
                        /\ Len(allocator'.freeBlocks) =
                              Len(allocator.freeBlocks) - (IF b.size = sz THEN 1 ELSE 0)
              /\ ( /\ allocLastOp = "free"
                   /\ allocCall.size = allocCall'.size
                   /\ Block(allocCall.offset, sz) \in BlocksOf(allocator)
                   /\ \A y \in fits : y.offset >= allocCall.offset )
                  => allocCall'.offset = allocCall.offset]_vars

\* the middle one of three ranges was freed and the next allocate of the same size
\* came back at its offset
C21_Witness ==
    /\ allocLastOp = "allocate"
    /\ allocPrev = allocCall
    /\ \E lo, hi \in allocLive : lo.offset < allocCall.offset /\ allocCall.offset < hi.offset
    /\ Len(allocator.freeBlocks) = 1

(***************************************************************************)
(* GeometryManager, GeometryManager.hpp lines 70-184, GeometryManager.cpp. *)
(***************************************************************************)
\* sizeof(VoxelVertex), sizeof(uint32_t)
VOXEL_VERTEX_SIZE == 8
INDEX_SIZE == 4

\* GeometryManager.cpp lines 14-34: the pool allocateNewPool appends
NewPool ==
    [vertexAllocator |-> BlockReset(VERTEX_BUFFER_SIZE),
     indexAllocator |-> BlockReset(INDEX_BUFFER_SIZE)]

\* lines 105-117: try the pools from position i on; a pool whose index allocation
\* fails gets its vertex range back (line 113)
RECURSIVE AllocateInPools(_, _, _, _)
AllocateInPools(ps, i, vertexDataSize, indexDataSize) ==
    IF i > Len(ps)
    THEN [pools |-> ps, target |-> NONE, vOff |-> NONE, iOff |-> NONE]
    ELSE LET v == BlockAllocate(ps[i].vertexAllocator, vertexDataSize, ALLOC_ALIGN)
         IN  IF v.offset = NONE
             THEN AllocateInPools(ps, i + 1, vertexDataSize, indexDataSize)
             ELSE LET x == BlockAllocate(ps[i].indexAllocator, indexDataSize, ALLOC_ALIGN)
                  IN  IF x.offset # NONE
                      THEN [pools |-> [ps EXCEPT ![i] = [vertexAllocator |-> v.alloc,
                                                         indexAllocator |-> x.alloc]],
                            target |-> i - 1, vOff |-> v.offset, iOff |-> x.offset]
                      ELSE AllocateInPools(
                               [ps EXCEPT ![i].vertexAllocator =
                                    BlockFree(v.alloc, v.offset, vertexDataSize, ALLOC_ALIGN)],
                               i + 1, vertexDataSize, indexDataSize)

\* Mesh.hpp: Mesh(indexCount, firstIndex, vertexOffset, bufferIndex)
Mesh(indexCount, firstIndex, vertexOffset, bufferIndex) ==
    [indexCount |-> indexCount, firstIndex |-> firstIndex,
     vertexOffset |-> vertexOffset, bufferIndex |-> bufferIndex]

\* lines 83-91, 128: the UploadRequest allocateMeshRaw writes to outRequest (the data
\* pointers are left out)
UploadRequest(bufferIndex, vertexOffset, indexOffset, vertexBytes, indexBytes) ==
    [bufferIndex |-> bufferIndex, vertexOffset |-> vertexOffset, indexOffset |-> indexOffset,
     vertexBytes |-> vertexBytes, indexBytes |-> indexBytes]

\* lines 95-134: allocateMeshRaw<T>(vertexCount, indexCount, ...), stride = sizeof(T):
\* the pools afterwards, whether it threw, and the returned Mesh
AllocateMeshRaw(ps, vertexCount, indexCount, stride) ==
    LET vertexDataSize == vertexCount * stride
        indexDataSize == indexCount * INDEX_SIZE
        r == AllocateInPools(ps, 1, vertexDataSize, indexDataSize)
    IN  IF r.target # NONE
        THEN [pools |-> r.pools, thrown |-> FALSE,
              request |-> UploadRequest(r.target, r.vOff, r.iOff, vertexDataSize, indexDataSize),
              mesh |-> Mesh(indexCount, r.iOff \div INDEX_SIZE, r.vOff \div stride, r.target)]
        ELSE LET target == Len(r.pools)
                 v == BlockAllocate(NewPool.vertexAllocator, vertexDataSize, ALLOC_ALIGN)
                 x == BlockAllocate(NewPool.indexAllocator, indexDataSize, ALLOC_ALIGN)
                 ps2 == Append(r.pools, [vertexAllocator |-> v.alloc,
                                         indexAllocator |-> x.alloc])
             IN  IF v.offset = NONE \/ x.offset = NONE
                 THEN [pools |-> ps2, thrown |-> TRUE, mesh |-> Mesh(0, 0, 0, NONE)]
                 ELSE [pools |-> ps2, thrown |-> FALSE,
                       request |-> UploadRequest(target, v.offset, x.offset,
                                                 vertexDataSize, indexDataSize),
                       mesh |-> Mesh(indexCount, x.offset \div INDEX_SIZE,
                                     v.offset \div stride, target)]

\* lines 142-148: freeMesh(vertexOffsetSteps, firstIndex, vertexBytes, indexBytes,
\* vertexStride, bufferIndex)
FreeMesh(ps, vertexOffsetSteps, firstIndex, vertexBytes, indexBytes, vertexStride, bufferIndex) ==
    IF bufferIndex < Len(ps)
    THEN [ps EXCEPT ![bufferIndex + 1] =
            [vertexAllocator |-> BlockFree(@.vertexAllocator,
                                           vertexOffsetSteps * vertexStride,
                                           vertexBytes, ALLOC_ALIGN),
             indexAllocator |-> BlockFree(@.indexAllocator,
                                          firstIndex * INDEX_SIZE,
                                          indexBytes, ALLOC_ALIGN)]]
    ELSE ps

\* GeometryManager.cpp lines 141-147: reset()
ResetPools(ps) == [i \in 1..Len(ps) |-> NewPool]

\* would allocateMeshRaw have to create a pool
NeedsNewPool(ps, vertexCount, indexCount, stride) ==
    AllocateInPools(ps, 1, vertexCount * stride, indexCount * INDEX_SIZE).target = NONE

\* GeometryManager.cpp lines 10-12: the constructor creates the first pool
GeomInit ==
    /\ pools = << NewPool >>
    /\ meshes = { }
    /\ geomThrown = FALSE

nonGeomVars == << workerVars, allocVars, rendVars, extVars >>

\* a call of allocateMeshRaw<VoxelVertex> for a mesh of q quads
allocateMeshRaw ==
    \E q \in 1..MaxQuads :
        /\ Len(pools) < MaxPools \/ ~NeedsNewPool(pools, 4 * q, 6 * q, VOXEL_VERTEX_SIZE)
        /\ LET r == AllocateMeshRaw(pools, 4 * q, 6 * q, VOXEL_VERTEX_SIZE)
           IN  /\ pools' = r.pools
               /\ geomThrown' = r.thrown
               /\ meshes' = IF r.thrown THEN meshes
                            ELSE meshes \cup { [mesh |-> r.mesh,
                                                vertexBytes |-> 4 * q * VOXEL_VERTEX_SIZE,
                                                indexBytes |-> 6 * q * INDEX_SIZE] }
        /\ UNCHANGED nonGeomVars

\* a call of freeMesh for a Mesh handed out before, with its byte sizes
freeMesh ==
    \E m \in meshes :
        /\ pools' = FreeMesh(pools, m.mesh.vertexOffset, m.mesh.firstIndex,
                             m.vertexBytes, m.indexBytes, VOXEL_VERTEX_SIZE,
                             m.mesh.bufferIndex)
        /\ meshes' = meshes \ { m }
        /\ geomThrown' = FALSE
        /\ UNCHANGED nonGeomVars

GeomNext ==
    \/ allocateMeshRaw
    \/ freeMesh

(***************************************************************************)
(* Claims about GeometryManager.                                           *)
(***************************************************************************)
\* the meshes handed out in pool number pool (0-based, as Mesh::bufferIndex)
MeshesIn(pool) == { m \in meshes : m.mesh.bufferIndex = pool }

RECURSIVE SumVertexBytes(_)
SumVertexBytes(S) ==
    IF S = { } THEN 0
    ELSE LET m == CHOOSE x \in S : TRUE
         IN  AlignUp(m.vertexBytes, ALLOC_ALIGN) + SumVertexBytes(S \ { m })

RECURSIVE SumIndexBytes(_)
SumIndexBytes(S) ==
    IF S = { } THEN 0
    ELSE LET m == CHOOSE x \in S : TRUE
         IN  AlignUp(m.indexBytes, ALLOC_ALIGN) + SumIndexBytes(S \ { m })

\* C9: no pool holds a vertex reservation without its paired index reservation:
\* in every pool the reserved vertex bytes and the reserved index bytes are exactly
\* those of the meshes handed out in that pool.
C9_PairedAllocation ==
    \A p \in 1..Len(pools) :
        /\ pools[p].vertexAllocator.m_allocated_bytes = SumVertexBytes(MeshesIn(p - 1))
        /\ pools[p].indexAllocator.m_allocated_bytes = SumIndexBytes(MeshesIn(p - 1))

(***************************************************************************)
(* ChunkRenderer, ChunkRenderer.cpp.                                       *)
(***************************************************************************)
Keys == 1..MaxChunks

\* the chunk (0, 0, 0), the one key within the bounds ChunkStorage is constructed with
OriginKey == 1

LODS == 0..MaxLOD
NoLOD == -1
NoRecord == [absent |-> TRUE]
NullMesh == [null |-> TRUE]

\* ChunkRenderer.hpp lines 16-22: a default-constructed ChunkRenderData
DefaultRecord == [mesh |-> NullMesh, vertexCount |-> 0, indexCount |-> 0, valid |-> FALSE]

\* MeshWorker.hpp lines 18-31: a MeshTask; refs are the keys of the chunks it points to
\* (task.chunk and the non-null task.neighbors); task.result is read only by the
\* drain, which takes its size as an input
MeshTask(type, key, lod, refs) == [type |-> type, key |-> key, lod |-> lod, refs |-> refs]

\* the chunk keys lie on the x axis: the chunks that share a face with chunk k
Neighbours(k) == { k - 1, k + 1 } \cap Keys

\* ChunkRenderer.cpp lines 169-170, 185-186: the LOD a result must have
DesiredLOD(lods, key) == IF lods[key] # NoLOD THEN lods[key] ELSE 0

\* lines 166-174: latestTasks: per key the last task of done with the desired LOD
\* latestTasks built without the comparison of task.lod with the desired LOD
RECURSIVE LatestTasks_NoLODFilter(_, _, _)
LatestTasks_NoLODFilter(latest, doneSeq, lods) ==
    IF doneSeq = << >> THEN latest
    ELSE LatestTasks_NoLODFilter([latest EXCEPT ![Head(doneSeq).task.key] = Head(doneSeq)],
                                 Tail(doneSeq), lods)

RECURSIVE LatestTasks(_, _, _)
LatestTasks(latest, doneSeq, lods) ==
    IF doneSeq = << >> THEN latest
    ELSE LET task == Head(doneSeq).task
         IN  LatestTasks(
                 IF task.lod = DesiredLOD(lods, task.key)
                 THEN [latest EXCEPT ![task.key] = Head(doneSeq)]
                 ELSE latest,
                 Tail(doneSeq), lods)

\* MeshWorker.hpp lines 156-170: the done list as collect returns it, each task with
\* the size in quads of the task.result its worker filled in
WithResults(doneSeq, res) ==
    [i \in 1..Len(doneSeq) |-> [task |-> doneSeq[i], quads |-> res[i]]]

NoTaskFor == [none |-> TRUE]

\* the sizes of task.result the drain is given: an empty mesh, a small one, and the
\* largest, which no pool can hold
ResultQuads == { 0, 1, MaxQuads }

\* lines 191-204: take the record of key (created if absent) and release what it holds
ReleaseRecord(st, key) ==
    LET rd == IF st.renderData[key] = NoRecord THEN DefaultRecord ELSE st.renderData[key]
    IN  IF rd.valid
        THEN [st EXCEPT
                !.totalVertices = @ - rd.vertexCount,
                !.totalIndices = @ - rd.indexCount,
                !.pools = IF rd.mesh # NullMesh
                          THEN FreeMesh(@, rd.mesh.vertexOffset, rd.mesh.firstIndex,
                                        rd.vertexCount * VOXEL_VERTEX_SIZE,
                                        rd.indexCount * INDEX_SIZE,
                                        VOXEL_VERTEX_SIZE, rd.mesh.bufferIndex)
                          ELSE @,
                !.renderData[key] = [rd EXCEPT !.mesh = NullMesh, !.valid = FALSE]]
        ELSE [st EXCEPT !.renderData[key] = rd]

\* lines 183-239: the body of the loop over latestTasks for one key; st.thrown is set
\* when allocateMeshRaw throws, which ends the loop and the function
ProcessTask(st, key, task, quads) ==
    LET s1 == ReleaseRecord(st, key)
    IN  IF task.type = "GENERATE"
        THEN [s1 EXCEPT !.dirtyPending = @ \cup { key }]
        ELSE IF quads = 0
        THEN s1
        ELSE LET r == AllocateMeshRaw(s1.pools, 4 * quads, 6 * quads,
                                      VOXEL_VERTEX_SIZE)
             IN  IF r.thrown
                 THEN [s1 EXCEPT !.pools = r.pools, !.thrown = TRUE,
                                 !.failed = @ \cup { key }]
                 ELSE [s1 EXCEPT
                         !.pools = r.pools,
                         !.renderData[key] = [mesh |-> r.mesh,
                                              vertexCount |-> 4 * quads,
                                              indexCount |-> 6 * quads,
                                              valid |-> TRUE],
                         !.totalVertices = @ + 4 * quads,
                         !.totalIndices = @ + 6 * quads,
                         !.requests = @ + 1]

\* lines 183-239: the loop over latestTasks, in the order the map iterates (the state
\* after one key is bound as s, so that it is computed once)
RECURSIVE ProcessTasks(_, _, _)
ProcessTasks(st, order, latest) ==
    IF order = << >> \/ st.thrown THEN st
    ELSE CHOOSE out \in
             { ProcessTasks(s, Tail(order), latest) :
                 s \in { ProcessTask(st, Head(order), latest[Head(order)].task,
                                     latest[Head(order)].quads) } } : TRUE

\* the orders in which an unordered_map over the key set S can iterate
Orders(S) ==
    { o \in [1..Cardinality(S) -> S] : \A i, j \in 1..Cardinality(S) : i # j => o[i] # o[j] }

NoRendCall == [op |-> "other"]

RendInit ==
    /\ loaded = { }
    /\ gridSized = FALSE
    /\ gridBounds = { OriginKey }
    /\ dropRefs = { }
    /\ renderData = [k \in Keys |-> NoRecord]
    /\ chunkLOD = [k \in Keys |-> NoLOD]
    /\ dirtyPending = { }
    /\ totalVertices = 0 /\ totalIndices = 0
    /\ rQueue = << >>
    /\ rDone = << >>
    /\ drainEscaped = FALSE
    /\ drainFailed = { }
    /\ drainStale = { }
    /\ markCalls = [k \in Keys |-> 0]
    /\ rendCall = NoRendCall

nonRendVars == << workerVars, allocVars, meshes, geomThrown, extVars >>

\* a step that is neither markDirty nor flushDirty
otherCall == rendCall' = NoRendCall /\ UNCHANGED markCalls

\* lines 37-40: markDirty(cx, cy, cz)
\* markDirty that hands the chunk to the worker at once
markDirty_Immediate ==
    /\ ~drainEscaped
    /\ \E k \in Keys :
        /\ markCalls[k] < MaxMarks
        /\ Len(rQueue) + Len(rDone) + 1 <= MaxInFlight
        /\ rendCall' = [op |-> "markDirty", key |-> k]
        /\ rQueue' = IF k \in loaded
                      THEN Append(rQueue, MeshTask("MESH", k, DesiredLOD(chunkLOD, k), { k }))
                      ELSE rQueue
        /\ markCalls' = IF k \in loaded THEN [markCalls EXCEPT ![k] = @ + 1] ELSE markCalls
    /\ dropRefs' = { } /\ drainStale' = { }
    /\ UNCHANGED << loaded, gridSized, gridBounds, renderData, chunkLOD, dirtyPending,
                    totalVertices, totalIndices, rDone, drainEscaped, drainFailed, pools >>
    /\ UNCHANGED nonRendVars

markDirty ==
    /\ ~drainEscaped
    /\ \E k \in Keys :
        /\ markCalls[k] < MaxMarks
        /\ rendCall' = [op |-> "markDirty", key |-> k]
        /\ dirtyPending' = IF k \in loaded THEN dirtyPending \cup { k } ELSE dirtyPending
        /\ markCalls' = IF k \in loaded THEN [markCalls EXCEPT ![k] = @ + 1] ELSE markCalls
    /\ dropRefs' = { } /\ drainStale' = { }
    /\ UNCHANGED << loaded, gridSized, gridBounds, renderData, chunkLOD, totalVertices,
                    totalIndices, rQueue, rDone, drainEscaped, drainFailed, pools >>
    /\ UNCHANGED nonRendVars

\* lines 49-73: the MESH tasks flushDirty builds for the keys in the order o, each
\* with the LOD that calculateLOD returned for it
RECURSIVE FlushBatch(_, _)
FlushBatch(o, lods) ==
    IF o = << >> THEN << >>
    ELSE (IF Head(o) \in loaded
          THEN << MeshTask("MESH", Head(o), lods[Head(o)],
                           { Head(o) } \cup (Neighbours(Head(o)) \cap loaded)) >>
          ELSE << >>) \o FlushBatch(Tail(o), lods)

\* lines 42-79: flushDirty(); m_lodCtrl.calculateLOD depends on the camera, so its
\* value per chunk is an input
flushDirty ==
    /\ ~drainEscaped
    /\ dirtyPending # { }
    /\ Len(rQueue) + Len(rDone) + Cardinality(dirtyPending) <= MaxInFlight
    /\ \E lods \in [dirtyPending -> LODS], o \in Orders(dirtyPending) :
        /\ rQueue' = rQueue \o FlushBatch(o, lods)
        /\ chunkLOD' = [k \in Keys |-> IF k \in dirtyPending /\ k \in loaded
                                       THEN lods[k] ELSE chunkLOD[k]]
    /\ dirtyPending' = { }
    /\ rendCall' = [op |-> "flushDirty", marks |-> markCalls]
    /\ markCalls' = [k \in Keys |-> 0]
    /\ dropRefs' = { } /\ drainStale' = { }
    /\ UNCHANGED << loaded, gridSized, gridBounds, renderData, totalVertices, totalIndices,
                    rDone, drainEscaped, drainFailed, pools >>
    /\ UNCHANGED nonRendVars

\* lines 81-94: submitGenerateTaskHigh(chunk, seed)
submitGenerateTaskHigh ==
    /\ ~drainEscaped
    /\ Len(rQueue) + Len(rDone) + 1 <= MaxInFlight
    /\ \E k \in loaded :
        rQueue' = Append(rQueue, MeshTask("GENERATE", k, 0, { k }))
    /\ dropRefs' = { } /\ drainStale' = { } /\ otherCall
    /\ UNCHANGED << loaded, gridSized, gridBounds, renderData, chunkLOD, dirtyPending, totalVertices,
                    totalIndices, rDone, drainEscaped, drainFailed, pools >>
    /\ UNCHANGED nonRendVars

\* lines 96-98: setLOD(key, lod)
setLOD ==
    /\ ~drainEscaped
    /\ \E k \in Keys, lod \in LODS :
        /\ chunkLOD[k] # lod
        /\ chunkLOD' = [chunkLOD EXCEPT ![k] = lod]
    /\ dropRefs' = { } /\ drainStale' = { } /\ otherCall
    /\ UNCHANGED << loaded, gridSized, gridBounds, renderData, dirtyPending, totalVertices,
                    totalIndices, rQueue, rDone, drainEscaped, drainFailed, pools >>
    /\ UNCHANGED nonRendVars

\* MeshWorker.hpp lines 156-170: some worker completes one of the submitted tasks and
\* appends it to m_done
WorkerCompletes ==
    /\ ~drainEscaped
    /\ \E i \in 1..Len(rQueue) :
        /\ rQueue' = RemoveAt(rQueue, i)
        /\ rDone' = Append(rDone, rQueue[i])
    /\ dropRefs' = { } /\ drainStale' = { } /\ otherCall
    /\ UNCHANGED << loaded, gridSized, gridBounds, renderData, chunkLOD, dirtyPending, totalVertices,
                    totalIndices, drainEscaped, drainFailed, pools >>
    /\ UNCHANGED nonRendVars

\* lines 166-174: the keys of latestTasks for the collected list doneR
DrainKeys(doneR) ==
    { k \in Keys : LatestTasks([j \in Keys |-> NoTaskFor], doneR, chunkLOD)[k] # NoTaskFor }

\* lines 163-239: the drain of the collected list doneR from the present state, with
\* latestTasks iterated in the order o
Drain(doneR, o) ==
    ProcessTasks([renderData |-> renderData, pools |-> pools,
                  totalVertices |-> totalVertices, totalIndices |-> totalIndices,
                  dirtyPending |-> dirtyPending, requests |-> 0,
                  thrown |-> FALSE, failed |-> { }],
                 o, LatestTasks([j \in Keys |-> NoTaskFor], doneR, chunkLOD))

\* lines 160-247: rebuildDirtyChunks(device, currentTime); res[i] is the number of
\* quads in the mesh the worker built for the i-th task of the done list
rebuildDirtyChunks ==
    /\ ~drainEscaped
    /\ rDone # << >>
    /\ \E res \in [1..Len(rDone) -> ResultQuads] :
         \E doneR \in { WithResults(rDone, res) } :
          \E o \in Orders(DrainKeys(doneR)) :
           \E st \in { Drain(doneR, o) } :
                 /\ Len(st.pools) <= MaxPools
                 /\ renderData' = st.renderData
                 /\ pools' = st.pools
                 /\ totalVertices' = st.totalVertices
                 /\ totalIndices' = st.totalIndices
                 /\ dirtyPending' = st.dirtyPending
                 /\ drainEscaped' = st.thrown
                 /\ drainFailed' = st.failed
                 /\ drainStale' = { rDone[i].key : i \in 1..Len(rDone) } \ DrainKeys(doneR)
    /\ rDone' = << >>
    /\ dropRefs' = { } /\ otherCall
    /\ UNCHANGED << loaded, gridSized, gridBounds, chunkLOD, rQueue >>
    /\ UNCHANGED nonRendVars

\* lines 249-265: removeChunk(key)
removeChunk ==
    /\ ~drainEscaped
    /\ \E k \in Keys :
        /\ renderData[k] # NoRecord \/ chunkLOD[k] # NoLOD \/ k \in dirtyPending
        /\ LET rd == renderData[k]
               held == rd # NoRecord /\ rd.mesh # NullMesh
           IN  /\ pools' = IF held
                           THEN FreeMesh(pools, rd.mesh.vertexOffset, rd.mesh.firstIndex,
                                         rd.vertexCount * VOXEL_VERTEX_SIZE,
                                         rd.indexCount * INDEX_SIZE,
                                         VOXEL_VERTEX_SIZE, rd.mesh.bufferIndex)
                           ELSE pools
               /\ totalVertices' = IF held THEN totalVertices - rd.vertexCount
                                   ELSE totalVertices
               /\ totalIndices' = IF held THEN totalIndices - rd.indexCount
                                  ELSE totalIndices
        /\ renderData' = [renderData EXCEPT ![k] = NoRecord]
        /\ chunkLOD' = [chunkLOD EXCEPT ![k] = NoLOD]
        /\ dirtyPending' = dirtyPending \ { k }
    /\ dropRefs' = { } /\ drainStale' = { } /\ otherCall
    /\ UNCHANGED << loaded, gridSized, gridBounds, rQueue, rDone, drainEscaped, drainFailed >>
    /\ UNCHANGED nonRendVars

(***************************************************************************)
(* ChunkStorage, ChunkStorage.cpp, and ChunkRenderer::clear.               *)
(***************************************************************************)
\* the keys of the chunks that a task in a ring or in execution points to
Referenced == UNION { rQueue[i].refs : i \in 1..Len(rQueue) }

rendOnlyVars == << renderData, chunkLOD, dirtyPending, totalVertices, totalIndices,
                   rQueue, rDone, drainEscaped, drainFailed >>

\* a step of ChunkStorage drains nothing
storageStep == drainStale' = { } /\ otherCall /\ UNCHANGED << rendOnlyVars, pools >>

\* ChunkStorage.cpp lines 138-142: clear()
StorageClear ==
    /\ ~drainEscaped
    /\ loaded # { } \/ gridSized
    /\ loaded' = { }
    /\ gridSized' = FALSE
    /\ UNCHANGED gridBounds
    /\ dropRefs' = loaded \cap Referenced
    /\ storageStep
    /\ UNCHANGED nonRendVars

\* ChunkStorage.cpp lines 17-136: generateWorld(radiusX, radiusZ, seed): clear(), size
\* the grid, create the chunks the terrain reaches
StorageGenerateWorld ==
    /\ ~drainEscaped
    /\ \E S \in SUBSET Keys :
        /\ S # { }
        /\ loaded' = S
    /\ gridSized' = TRUE
    /\ gridBounds' = Keys
    /\ dropRefs' = loaded \cap Referenced
    /\ storageStep
    /\ UNCHANGED nonRendVars

\* ChunkStorage.cpp lines 144-157: removeChunk(cx, cy, cz)
StorageRemoveChunk ==
    /\ ~drainEscaped
    /\ \E k \in loaded :
        /\ loaded' = loaded \ { k }
        /\ dropRefs' = { k } \cap Referenced
    /\ storageStep
    /\ UNCHANGED << gridSized, gridBounds >>
    /\ UNCHANGED nonRendVars

\* ChunkStorage.cpp lines 193-211: createChunkIfMissing(cx, cy, cz, seed, renderer),
\* with ChunkRenderer::submitGenerateTaskHigh (ChunkRenderer.cpp lines 81-94)
createChunkIfMissing ==
    /\ ~drainEscaped
    /\ gridSized
    /\ Len(rQueue) + Len(rDone) + 1 <= MaxInFlight
    /\ \E k \in Keys \ loaded :
        /\ loaded' = loaded \cup { k }
        /\ rQueue' = Append(rQueue, MeshTask("GENERATE", k, 0, { k }))
    /\ dropRefs' = { } /\ drainStale' = { } /\ otherCall
    /\ UNCHANGED << gridSized, gridBounds, renderData, chunkLOD, dirtyPending,
                    totalVertices, totalIndices, rDone, drainEscaped, drainFailed, pools >>
    /\ UNCHANGED nonRendVars

\* ChunkRenderer.cpp lines 14-25: clear(): waitAll returns once every submitted task
\* has been executed, collect discards the results
rendererClear ==
    /\ ~drainEscaped
    /\ rQueue # << >> \/ rDone # << >> \/ dirtyPending # { }
       \/ renderData # [k \in Keys |-> NoRecord] \/ chunkLOD # [k \in Keys |-> NoLOD]
    /\ rQueue' = << >>
    /\ rDone' = << >>
    /\ renderData' = [k \in Keys |-> NoRecord]
    /\ chunkLOD' = [k \in Keys |-> NoLOD]
    /\ dirtyPending' = { }
    /\ totalVertices' = 0
    /\ totalIndices' = 0
    /\ dropRefs' = { } /\ drainStale' = { } /\ otherCall
    /\ UNCHANGED << loaded, gridSized, gridBounds, drainEscaped, drainFailed, pools >>
    /\ UNCHANGED nonRendVars

RendNext ==
    \/ StorageRemoveChunk
    \/ StorageClear
    \/ StorageGenerateWorld
    \/ createChunkIfMissing
    \/ markDirty
    \/ flushDirty
    \/ submitGenerateTaskHigh
    \/ setLOD
    \/ WorkerCompletes
    \/ rebuildDirtyChunks
    \/ removeChunk

(***************************************************************************)
(* Claims about ChunkRenderer.                                             *)
(***************************************************************************)
\* C10: when allocateMeshRaw fails for a MESH result in rebuildDirtyChunks, no
\* exception leaves the drain, the record of that chunk is invalid and its key is
\* in dirtyPending afterwards.
C10_CapacityExceededRecovered ==
    \A k \in drainFailed :
        /\ ~drainEscaped
        /\ renderData[k] # NoRecord /\ ~renderData[k].valid
        /\ k \in dirtyPending

\* C11: no chunk is dropped by storage (clear, generateWorld, removeChunk) while a
\* MESH or GENERATE task that points to it, as its chunk or as a neighbour, is in a
\* ring or in execution.
C11_NoDropUnderTask == dropRefs = { }

\* what a drain outcome st installs: per chunk key the validity and the size of the
\* installed mesh, and dirtyPending
Installed(st) ==
    [records |-> [k \in Keys |->
                    IF st.renderData[k] = NoRecord THEN NoRecord
                    ELSE [valid |-> st.renderData[k].valid,
                          vertexCount |-> st.renderData[k].vertexCount,
                          indexCount |-> st.renderData[k].indexCount]],
     dirtyPending |-> st.dirtyPending]

\* C12: for the completed tasks at hand the renderer state after rebuildDirtyChunks
\* (the mesh installed per chunk key, and dirtyPending) is the same for every order
\* in which the workers may have appended the results to the done list.
C12_DrainOrderIndependent ==
    \A res \in [1..Len(rDone) -> ResultQuads], p \in Orders(1..Len(rDone)) :
        \A a \in { WithResults(rDone, res) } :
            \A b \in { [i \in 1..Len(rDone) |-> a[p[i]]] }, o \in Orders(DrainKeys(a)) :
                Installed(Drain(a, o)) = Installed(Drain(b, o))

\* the keys all of whose results in the done list have a LOD other than the desired one
StaleKeys ==
    { k \in Keys : /\ \E i \in 1..Len(rDone) : rDone[i].key = k
                   /\ \A i \in 1..Len(rDone) :
                        rDone[i].key = k => rDone[i].lod # DesiredLOD(chunkLOD, k) }

\* C13: a drained task whose LOD differs from the chunk's current LOD is dropped and
\* changes nothing: the drain leaves the record of a chunk with only such results and
\* its membership in dirtyPending as they were, and a drain of only such results
\* leaves all records, the totals, the pool allocators and dirtyPending as they were
\* and raises no error.
C13_StaleResultChangesNothing ==
    [][(rDone # << >> /\ rDone' = << >>) =>
          /\ \A k \in StaleKeys :
                /\ renderData'[k] = renderData[k]
                /\ (k \in dirtyPending') = (k \in dirtyPending)
          /\ StaleKeys = { rDone[i].key : i \in 1..Len(rDone) } =>
                /\ renderData' = renderData
                /\ totalVertices' = totalVertices /\ totalIndices' = totalIndices
                /\ pools' = pools
                /\ dirtyPending' = dirtyPending
                /\ ~drainEscaped']_vars

\* the last drain dropped a stale result for a chunk whose record holds a mesh
C13_Witness ==
    \E k \in drainStale : renderData[k] # NoRecord /\ renderData[k].valid

\* the MESH tasks for key k in a sequence of tasks
MeshTasksFor(q, k) == { i \in 1..Len(q) : q[i].type = "MESH" /\ q[i].key = k }

CHUNK_SIZE == 32

MaxCamera == 160

NoCall == 0 - 2

\* LODController.hpp lines 12-14
DefaultLodParams == [dist0 |-> 64, dist1 |-> 128, hysteresis |-> 4]

\* the values the sliders of the LOD window are moved to (main.cpp lines 422-424)
LodParamChoices ==
    { DefaultLodParams,
      [dist0 |-> 64, dist1 |-> 128, hysteresis |-> 0],
      [dist0 |-> 64, dist1 |-> 32, hysteresis |-> 4],
      [dist0 |-> 16, dist1 |-> 32, hysteresis |-> 24] }

Max(a, b) == IF a >= b THEN a ELSE b

\* dist < t and dist > t for dist = sqrt(distSq)
DistLess(distSq, t) == t > 0 /\ distSq < t * t
DistGreater(distSq, t) == t < 0 \/ distSq > t * t

\* lines 9-17: dx*dx + dy*dy + dz*dz for the chunk (cx, cy, cz)
DistSq(cam, cx, cy, cz) ==
    LET half == CHUNK_SIZE \div 2
        dx == cx * CHUNK_SIZE + half - cam.x
        dy == cy * CHUNK_SIZE + half - cam.y
        dz == cz * CHUNK_SIZE + half - cam.z
    IN  dx * dx + dy * dy + dz * dz

\* calculateLOD with the current LOD ignored: every call takes the lines 41-43
LodOf_NoHysteresis(distSq, p, currentLOD) ==
    LET d0 == Max(0, p.dist0)
        d1 == Max(d0, p.dist1)
    IN  IF DistLess(distSq, d0) THEN 0 ELSE IF DistLess(distSq, d1) THEN 1 ELSE 2

\* lines 19-44: the LOD for a distance
LodOf(distSq, p, currentLOD) ==
    LET d0 == Max(0, p.dist0)
        d1 == Max(d0, p.dist1)
        hy == Max(0, p.hysteresis)
    IN  CASE currentLOD < 0 ->
               IF DistLess(distSq, d0) THEN 0 ELSE IF DistLess(distSq, d1) THEN 1 ELSE 2
          [] currentLOD = 0 ->
               IF DistGreater(distSq, d0 + hy)
               THEN (IF DistGreater(distSq, d1 + hy) THEN 2 ELSE 1)
               ELSE 0
          [] currentLOD = 1 ->
               IF DistLess(distSq, d0 - hy) THEN 0
               ELSE IF DistGreater(distSq, d1 + hy) THEN 2
               ELSE 1
          [] currentLOD = 2 ->
               IF DistLess(distSq, d1 - hy)
               THEN (IF DistLess(distSq, d0 - hy) THEN 0 ELSE 1)
               ELSE 2
          [] OTHER ->
               IF DistLess(distSq, d0) THEN 0 ELSE IF DistLess(distSq, d1) THEN 1 ELSE 2

calculateLOD(cx, cy, cz, currentLOD) ==
    LodOf(DistSq(m_cameraPos, cx, cy, cz), lodParams, currentLOD)

LodInit ==
    /\ m_cameraPos = [x |-> 0, y |-> 0, z |-> 0]
    /\ lodParams = DefaultLodParams
    /\ lodCurrent = 0 - 1
    /\ lodArg = NoCall

nonLodVars == << workerVars, allocVars, geomVars, rendVars, cmVars, voxelVars, moreVars >>

\* the camera moves along x, at the height of the chunk's centre or above it
setCameraPosition ==
    /\ \E x \in 0..MaxCamera, y \in { CHUNK_SIZE \div 2, CHUNK_SIZE } :
          /\ m_cameraPos' = [x |-> x, y |-> y, z |-> CHUNK_SIZE \div 2]
          /\ m_cameraPos' # m_cameraPos
    /\ lodArg' = NoCall
    /\ UNCHANGED << lodParams, lodCurrent >>
    /\ UNCHANGED nonLodVars

\* a slider of the LOD window is moved
setLodParams ==
    /\ \E p \in LodParamChoices : lodParams' = p /\ p # lodParams
    /\ lodArg' = NoCall
    /\ UNCHANGED << m_cameraPos, lodCurrent >>
    /\ UNCHANGED nonLodVars

\* the chunk's LOD is recomputed from the LOD it has
updateLOD ==
    /\ lodArg' = lodCurrent
    /\ lodCurrent' = calculateLOD(0, 0, 0, lodCurrent)
    /\ UNCHANGED << m_cameraPos, lodParams >>
    /\ UNCHANGED nonLodVars

LodNext == setCameraPosition \/ setLodParams \/ updateLOD

\* the thresholds after the clamping of lines 19-21: Threshold(p)[b] lies between
\* LOD b - 1 and LOD b
Threshold(p) ==
    LET d0 == Max(0, p.dist0) IN << d0, Max(d0, p.dist1) >>

\* C14: calculateLOD with a current LOD returns a coarser LOD only if dist is above
\* threshold + h for every threshold it crosses, a finer LOD only if dist is below
\* threshold - h for every threshold it crosses, and the current LOD otherwise; with
\* d0 = 64, d1 = 128, h = 4: (current 0, dist 66) -> 0, (0, 69) -> 1, (1, 65) -> 1,
\* (1, 59) -> 0; and from current 0 a call at d0 + h + e followed by a call at
\* d0 + h - e does not return 0.
C14_Hysteresis ==
    /\ lodArg >= 0 =>
         LET distSq == DistSq(m_cameraPos, 0, 0, 0)
             t == Threshold(lodParams)
             hy == Max(0, lodParams.hysteresis)
             above(b) == DistGreater(distSq, t[b] + hy)
             below(b) == DistLess(distSq, t[b] - hy)
         IN  /\ lodCurrent \in 0..2
             /\ \A b \in 1..2 : lodArg < b /\ b <= lodCurrent => above(b)
             /\ \A b \in 1..2 : lodCurrent < b /\ b <= lodArg => below(b)
             /\ (lodArg < 2 => ~above(lodArg + 1)) /\ (lodArg > 0 => ~below(lodArg))
                   => lodCurrent = lodArg
    /\ LodOf(66 * 66, DefaultLodParams, 0) = 0
    /\ LodOf(69 * 69, DefaultLodParams, 0) = 1
    /\ LodOf(65 * 65, DefaultLodParams, 1) = 1
    /\ LodOf(59 * 59, DefaultLodParams, 1) = 0
    /\ \A e \in 1..(2 * Max(0, lodParams.hysteresis)) :
         LET at == Max(0, lodParams.dist0) + Max(0, lodParams.hysteresis)
             first == LodOf((at + e) * (at + e), lodParams, 0)
         IN  /\ first # 0
             /\ (at - e >= 0 => LodOf((at - e) * (at - e), lodParams, first) # 0)

\* a call with current LOD 1 inside the band around d0 kept LOD 1 where the plain
\* thresholds give LOD 0
C14_Witness ==
    /\ lodArg = 1 /\ lodCurrent = 1
    /\ lodParams = DefaultLodParams
    /\ DistLess(DistSq(m_cameraPos, 0, 0, 0), lodParams.dist0)

(***************************************************************************)
(* ChunkManager: voxel access by world coordinates and the dirty set       *)
(***************************************************************************)
MaxRadius == 1

MaxCmQueue == 2

VOXEL_AIR == 0

VoxelValues == { VOXEL_AIR, 1 }

\* the world positions the voxel calls are made with: inside chunk (0, 0, 0), on its
\* -x and +z faces, on the +x face of chunk (-1, 0, 0), on the +x, +y and -z faces
\* of chunk (-1, 0, -1), and in chunk (2, 0, 0)
EditPositions ==
    { << 5, 5, 5 >>, << 0, 5, CHUNK_SIZE - 1 >>, << 0 - 1, 5, 5 >>,
      << 0 - 1, CHUNK_SIZE - 1, 0 - CHUNK_SIZE >>, << 2 * CHUNK_SIZE + 6, 5, 5 >> }

\* a division that rounds the quotient down
IntDiv_Floor(a, b) == a \div b

\* the / of C++ on int: the quotient is truncated towards zero
IntDiv(a, b) == IF a >= 0 THEN a \div b ELSE 0 - ((0 - a) \div b)

\* worldToChunk with wx / CHUNK_SZ for every wx
worldToChunk_Truncating(wx) ==
    LET cx == IntDiv(wx, CHUNK_SIZE) IN [c |-> cx, l |-> wx - cx * CHUNK_SIZE]

\* lines 219-223: the chunk coordinate and the local coordinate of a world coordinate
worldToChunk(wx) ==
    LET cx == IF wx >= 0 THEN IntDiv(wx, CHUNK_SIZE)
              ELSE IntDiv(wx - CHUNK_SIZE + 1, CHUNK_SIZE)
    IN  [c |-> cx, l |-> wx - cx * CHUNK_SIZE]

KeyOf(w) == << worldToChunk(w[1]).c, worldToChunk(w[2]).c, worldToChunk(w[3]).c >>
LocalOf(w) == << worldToChunk(w[1]).l, worldToChunk(w[2]).l, worldToChunk(w[3]).l >>

\* lines 270-274: the dirty set after markDirty(key)
CmMarkDirty(dirty, key) == IF key \in cmChunks THEN dirty \cup { key } ELSE dirty

\* the key moved by d along axis a
Shift(key, a, d) == [key EXCEPT ![a] = @ + d]

\* lines 258-263: the six tests, x, y and z in turn
RECURSIVE CmMarkFaces(_, _, _, _)
CmMarkFaces(dirty, key, local, a) ==
    IF a > 3 THEN dirty
    ELSE LET low == IF local[a] = 0 THEN CmMarkDirty(dirty, Shift(key, a, 0 - 1)) ELSE dirty
             high == IF local[a] = CHUNK_SIZE - 1 THEN CmMarkDirty(low, Shift(key, a, 1))
                     ELSE low
         IN  CmMarkFaces(high, key, local, a + 1)

NoVoxelCall == [op |-> "none"]

\* the order in which a loop over an unordered container visits its elements
RECURSIVE IterationOrder(_)
IterationOrder(S) ==
    IF S = { } THEN << >>
    ELSE LET x == CHOOSE x \in S : TRUE IN << x >> \o IterationOrder(S \ { x })

CmInit ==
    /\ cmChunks = { }
    /\ cmVoxels = { }
    /\ cmDirtyPending = { }
    /\ cmChunkLOD = { }
    /\ cmQueue = << >>
    /\ cmCall = NoVoxelCall

nonCmVars == << workerVars, allocVars, geomVars, rendVars, lodVars, voxelVars, moreVars >>

\* lines 72-116: generateWorld(radiusX, radiusZ, seed), called with one radius for both
\* (main.cpp line 101); the terrain of the seed leaves the positions of the voxel calls
\* empty or fills them
cmGenerateWorld ==
    /\ cmQueue = << >>
    /\ \E radius \in 0..MaxRadius, filled \in BOOLEAN :
          \E chunks \in { { << cx, 0, cz >> : cx \in (0 - radius)..radius,
                                              cz \in (0 - radius)..radius } } :
             /\ cmChunks' = chunks
             /\ cmVoxels' = IF filled THEN { w \in EditPositions : KeyOf(w) \in chunks }
                            ELSE { }
             /\ cmChunkLOD' = { << k, calculateLOD(k[1], k[2], k[3], 0 - 1) >> : k \in chunks }
             /\ cmQueue' = IterationOrder(cmChunkLOD')
    /\ cmCall' = NoVoxelCall
    /\ UNCHANGED cmDirtyPending
    /\ UNCHANGED nonCmVars

\* lines 228-237: getVoxel(wx, wy, wz)
cmGetVoxel ==
    /\ \E w \in EditPositions :
          cmCall' = [op |-> "get", w |-> w,
                     result |-> IF KeyOf(w) \notin cmChunks THEN VOXEL_AIR
                                ELSE IF w \in cmVoxels THEN 1 ELSE VOXEL_AIR]
    /\ cmCall' # cmCall
    /\ UNCHANGED << cmChunks, cmVoxels, cmDirtyPending, cmChunkLOD, cmQueue >>
    /\ UNCHANGED nonCmVars

\* lines 242-264: setVoxel(wx, wy, wz, v)
cmSetVoxel ==
    /\ \E w \in EditPositions, v \in VoxelValues :
          /\ cmCall' = [op |-> "set", w |-> w]
          /\ IF KeyOf(w) \notin cmChunks
             THEN UNCHANGED << cmVoxels, cmDirtyPending >>
             ELSE /\ cmVoxels' = IF v = VOXEL_AIR THEN cmVoxels \ { w } ELSE cmVoxels \cup { w }
                  /\ cmDirtyPending' =
                        CmMarkFaces(CmMarkDirty(cmDirtyPending, KeyOf(w)), KeyOf(w), LocalOf(w), 1)
    /\ UNCHANGED << cmChunks, cmChunkLOD, cmQueue >>
    /\ UNCHANGED nonCmVars

\* lines 279-291: flushDirty()
cmFlushDirty ==
    /\ cmDirtyPending # { }
    /\ \E tasks \in { { << k, calculateLOD(k[1], k[2], k[3], 0 - 1) >> :
                          k \in cmDirtyPending \cap cmChunks } } :
          /\ Len(cmQueue) + Cardinality(tasks) <= MaxCmQueue
          /\ cmChunkLOD' = { e \in cmChunkLOD : e[1] \notin cmDirtyPending } \cup tasks
          /\ cmQueue' = cmQueue \o IterationOrder(tasks)
    /\ cmDirtyPending' = { }
    /\ cmCall' = NoVoxelCall
    /\ UNCHANGED << cmChunks, cmVoxels >>
    /\ UNCHANGED nonCmVars

\* the worker threads take the submitted tasks; the main thread does not look at the
\* rings in between
cmWorkersRun ==
    /\ cmQueue # << >>
    /\ cmQueue' = << >>
    /\ cmCall' = NoVoxelCall
    /\ UNCHANGED << cmChunks, cmVoxels, cmDirtyPending, cmChunkLOD >>
    /\ UNCHANGED nonCmVars

CmNext == cmGenerateWorld \/ cmGetVoxel \/ cmSetVoxel \/ cmFlushDirty \/ cmWorkersRun

\* the chunk whose range of CHUNK_SIZE voxels per axis holds the position w
OwnerOnAxis(x) == CHOOSE c \in (0 - 4)..4 : c * CHUNK_SIZE <= x /\ x < (c + 1) * CHUNK_SIZE
OwnerOf(w) == << OwnerOnAxis(w[1]), OwnerOnAxis(w[2]), OwnerOnAxis(w[3]) >>

\* the loaded chunks that share with the owner of w a face that the voxel at w touches
FaceNeighbours(w) ==
    LET o == OwnerOf(w)
    IN  { n \in cmChunks :
           \E a \in 1..3 :
              \/ w[a] = o[a] * CHUNK_SIZE /\ n = Shift(o, a, 0 - 1)
              \/ w[a] = (o[a] + 1) * CHUNK_SIZE - 1 /\ n = Shift(o, a, 1) }

\* C15: a setVoxel on a voxel of a loaded chunk that touches the face shared with
\* another loaded chunk leaves both keys in m_dirtyPending when it returns, and a
\* setVoxel on a voxel that touches no face of its chunk adds the owning chunk only.
C15_FaceEditMarksBoth ==
    [][cmCall'.op = "set" /\ OwnerOf(cmCall'.w) \in cmChunks =>
          /\ { OwnerOf(cmCall'.w) } \cup FaceNeighbours(cmCall'.w) \subseteq cmDirtyPending'
          /\ (\A a \in 1..3 : LET l == cmCall'.w[a] - OwnerOf(cmCall'.w)[a] * CHUNK_SIZE
                              IN  0 < l /\ l < CHUNK_SIZE - 1)
                => cmDirtyPending' = cmDirtyPending \cup { OwnerOf(cmCall'.w) }]_vars

\* the last setVoxel wrote a voxel with a negative world coordinate on the face
\* that two loaded chunks share, and both are marked
C15_Witness ==
    /\ cmCall.op = "set"
    /\ cmCall.w[1] < 0
    /\ OwnerOf(cmCall.w) \in cmChunks
    /\ FaceNeighbours(cmCall.w) # { }
    /\ FaceNeighbours(cmCall.w) \subseteq cmDirtyPending

(***************************************************************************)
(* ChunkStorage: getVoxel, setVoxel, getChunk, getGridIndex                *)
(***************************************************************************)
\* a key outside the bounds of every world: cy above m_maxY
OutOfGrid == MaxChunks + 1

\* static_cast<size_t>(-1)
NoIndex == 0 - 1

\* ChunkStorage.hpp lines 54-58
getGridIndex(k) == IF k \notin gridBounds THEN NoIndex ELSE k

\* ChunkStorage.cpp lines 181-191: the pointers getChunk can return.  When the grid
\* has no slots (after construction, after clear()) m_chunkGrid[idx] reads past the
\* end of an empty vector: the pointer is null or anything else
getChunk(k) ==
    IF getGridIndex(k) = NoIndex THEN { "null" }
    ELSE IF gridSized THEN { IF k \in loaded THEN "chunk" ELSE "null" }
    ELSE { "null", "wild" }

VoxelInit ==
    /\ voxels = [k \in Keys |-> VOXEL_AIR]
    /\ voxelCall = [op |-> "none", tick |-> 0]

nonVoxelVars == << workerVars, allocVars, geomVars, rendVars, lodVars, cmVars, moreVars >>

\* ChunkStorage.cpp lines 159-168: getVoxel(wx, wy, wz); through a wild pointer the
\* call reads any value
storageGetVoxel ==
    /\ \E k \in Keys \cup { OutOfGrid } : \E ptr \in getChunk(k) :
          \E result \in (CASE ptr = "null" -> { VOXEL_AIR }
                           [] ptr = "chunk" -> { voxels[k] }
                           [] OTHER -> VoxelValues) :
             voxelCall' = [op |-> "get", key |-> k, ptr |-> ptr, result |-> result,
                           tick |-> 1 - voxelCall.tick]
    /\ UNCHANGED voxels
    /\ UNCHANGED nonVoxelVars

\* ChunkStorage.cpp lines 170-179: setVoxel(wx, wy, wz, v); through a wild pointer
\* the call writes to memory that is not the chunk's
storageSetVoxel ==
    /\ \E k \in Keys \cup { OutOfGrid }, v \in VoxelValues : \E ptr \in getChunk(k) :
          /\ voxelCall' = [op |-> "set", key |-> k, ptr |-> ptr, tick |-> 1 - voxelCall.tick]
          /\ CASE ptr = "null" -> UNCHANGED voxels
               [] ptr = "chunk" -> voxels' = [voxels EXCEPT ![k] = v]
               [] OTHER -> voxels' \in [Keys -> VoxelValues]
    /\ UNCHANGED nonVoxelVars

StorageNext ==
    \/ StorageGenerateWorld
    \/ StorageClear
    \/ StorageRemoveChunk
    \/ createChunkIfMissing
    \/ markDirty
    \/ flushDirty
    \/ storageGetVoxel
    \/ storageSetVoxel

\* C16: voxel access on a chunk that is not loaded is not an error: getVoxel returns
\* VOXEL_AIR, setVoxel changes no chunk's voxels, and neither changes m_dirtyPending
\* or the worker's queues; no access reads or writes outside a chunk.
C16_UnloadedAccessIsNoError ==
    [][voxelCall'.tick # voxelCall.tick /\ voxelCall'.key \notin loaded =>
          /\ voxelCall'.ptr = "null"
          /\ voxelCall'.op = "get" => voxelCall'.result = VOXEL_AIR
          /\ UNCHANGED << voxels, dirtyPending, rQueue, rDone >>]_vars

\* C18: on shutdown a worker exits only when both rings are empty: when the workers
\* have exited, no task committed to a ring before the stop request is left in it.
C18_ExitOnlyWhenRingsEmpty ==
    (\A w \in Threads : wPc[w] = "exited") => headHigh = tailHigh /\ headLow = tailLow

\* C19: destroying the MeshWorker terminates: once the destructor has requested stop
\* and notified, no worker is blocked on m_cv, where nothing would wake it again, so
\* that every worker leaves workerLoop and the join completes.
C19_DestructorJoins ==
    ~ (mainPc = "dJoin" /\ \E w \in Threads : wPc[w] = "blocked")

(***************************************************************************)
(* GeometryManager::executeBatchUpload, GeometryManager.cpp lines 39-123.  *)
(***************************************************************************)
\* the longest requests vector a caller builds
MaxRequests == 3

\* lines 42-47: the sums of the requests' byte counts
RECURSIVE TotalVertexBytes(_)
TotalVertexBytes(requests) ==
    IF requests = << >> THEN 0
    ELSE Head(requests).vertexBytes + TotalVertexBytes(Tail(requests))

RECURSIVE TotalIndexBytes(_)
TotalIndexBytes(requests) ==
    IF requests = << >> THEN 0
    ELSE Head(requests).indexBytes + TotalIndexBytes(Tail(requests))

\* a vkCmdCopyBuffer with one region: source buffer, destination buffer of a pool, region
CopyBuffer(src, pool, dst, srcOffset, dstOffset, size) ==
    [src |-> src, pool |-> pool, dst |-> dst,
     srcOffset |-> srcOffset, dstOffset |-> dstOffset, size |-> size]

\* the index copies read from the vertex staging buffer as well
RECURSIVE RecordCopies_OneStaging(_, _, _)
RecordCopies_OneStaging(requests, vStagingOffset, iStagingOffset) ==
    IF requests = << >> THEN << >>
    ELSE LET req == Head(requests)
         IN  (IF req.vertexBytes > 0
              THEN << CopyBuffer("vertexStaging", req.bufferIndex, "vertexBuffer",
                                 vStagingOffset, req.vertexOffset, req.vertexBytes) >>
              ELSE << >>)
             \o (IF req.indexBytes > 0
                 THEN << CopyBuffer("vertexStaging", req.bufferIndex, "indexBuffer",
                                    iStagingOffset, req.indexOffset, req.indexBytes) >>
                 ELSE << >>)
             \o RecordCopies_OneStaging(Tail(requests), vStagingOffset + req.vertexBytes,
                                        iStagingOffset + req.indexBytes)

\* lines 66-80: the copies recorded for the requests, in order, with the staging
\* offsets advancing by the bytes copied
RECURSIVE RecordCopies(_, _, _)
RecordCopies(requests, vStagingOffset, iStagingOffset) ==
    IF requests = << >> THEN << >>
    ELSE LET req == Head(requests)
         IN  (IF req.vertexBytes > 0
              THEN << CopyBuffer("vertexStaging", req.bufferIndex, "vertexBuffer",
                                 vStagingOffset, req.vertexOffset, req.vertexBytes) >>
              ELSE << >>)
             \o (IF req.indexBytes > 0
                 THEN << CopyBuffer("indexStaging", req.bufferIndex, "indexBuffer",
                                    iStagingOffset, req.indexOffset, req.indexBytes) >>
                 ELSE << >>)
             \o RecordCopies(Tail(requests), vStagingOffset + req.vertexBytes,
                             iStagingOffset + req.indexBytes)

\* lines 64-67: the std::unordered_set of the requests' pool indices
DirtyPools(requests) == { requests[i].bufferIndex : i \in 1..Len(requests) }

\* a VkBufferMemoryBarrier2 from the copy stage to dstStage for a buffer of a pool
BufferBarrier(dstStage, pool, buffer) == [dstStage |-> dstStage, pool |-> pool, buffer |-> buffer]

\* a vertex barrier per dirty pool and no index barrier
BufferBarriers_VertexOnly(order) ==
    [j \in 1..Len(order) |-> BufferBarrier("VERTEX_INPUT", order[j], "vertexBuffer")]

\* lines 85-112: for each dirty pool, in the set's iteration order, the barrier of
\* its vertex buffer and then the barrier of its index buffer
BufferBarriers(order) ==
    [j \in 1..(2 * Len(order)) |->
        IF j % 2 = 1
        THEN BufferBarrier("VERTEX_INPUT", order[(j + 1) \div 2], "vertexBuffer")
        ELSE BufferBarrier("INDEX_INPUT", order[j \div 2], "indexBuffer")]

\* nothing created, nothing recorded
NoUpload == [vertexStaging |-> << >>, indexStaging |-> << >>, copies |-> << >>,
             pipelineBarriers |-> << >>]

\* lines 39-123: executeBatchUpload(requests) with order the iteration order of
\* dirtyPools: the sizes of the staging buffers created, the copies and the
\* vkCmdPipelineBarrier2 calls recorded, each with its buffer barriers
ExecuteBatchUpload(requests, order) ==
    IF requests = << >> THEN NoUpload
    ELSE IF TotalVertexBytes(requests) = 0 /\ TotalIndexBytes(requests) = 0 THEN NoUpload
    ELSE [vertexStaging |-> << Max(1, TotalVertexBytes(requests)) >>,
          indexStaging |-> << Max(1, TotalIndexBytes(requests)) >>,
          copies |-> RecordCopies(requests, 0, 0),
          pipelineBarriers |-> IF BufferBarriers(order) # << >>
                               THEN << BufferBarriers(order) >>
                               ELSE << >>]

NotCalled == [called |-> FALSE]

UploadInit ==
    /\ uploadRequests = << >>
    /\ uploadCmds = NotCalled

nonUploadVars == << workerVars, allocVars, rendVars, lodVars, cmVars, voxelVars, meshVars,
                    drawVars, splitVars, createVars, raceVars >>

\* a caller allocates a mesh of q quads with allocateMeshRaw<VoxelVertex> and keeps the
\* request for the batch (ChunkRenderer.cpp lines 180, 223-235); when allocateMeshRaw
\* throws, the caller's vector is destroyed with its frame
requestUpload ==
    \E q \in { 0, 1, 2, MaxQuads } :
        /\ Len(uploadRequests) < MaxRequests
        /\ Len(pools) < MaxPools \/ ~NeedsNewPool(pools, 4 * q, 6 * q, VOXEL_VERTEX_SIZE)
        /\ LET r == AllocateMeshRaw(pools, 4 * q, 6 * q, VOXEL_VERTEX_SIZE)
           IN  /\ pools' = r.pools
               /\ geomThrown' = r.thrown
               /\ uploadRequests' = IF r.thrown THEN << >>
                                    ELSE Append(uploadRequests, r.request)
        /\ uploadCmds' = NotCalled
        /\ UNCHANGED meshes
        /\ UNCHANGED nonUploadVars

\* a call of executeBatchUpload with the requests collected
executeBatchUpload ==
    \E order \in Orders(DirtyPools(uploadRequests)) :
        /\ uploadCmds' = [called |-> TRUE, requests |-> uploadRequests,
                          cmds |-> ExecuteBatchUpload(uploadRequests, order)]
        /\ uploadRequests' = << >>
        /\ UNCHANGED geomVars
        /\ UNCHANGED nonUploadVars

\* GeometryManager.cpp lines 141-147: reset(), called between batches
geometryReset ==
    /\ uploadRequests = << >>
    /\ pools' = ResetPools(pools)
    /\ geomThrown' = FALSE
    /\ uploadCmds' = NotCalled
    /\ UNCHANGED << meshes, uploadRequests >>
    /\ UNCHANGED nonUploadVars

UploadNext == requestUpload \/ executeBatchUpload \/ geometryReset

\* the barriers of a vkCmdPipelineBarrier2 call that go to dstStage for a pool's buffer
BarriersFor(barriers, dstStage, pool, buffer) ==
    { j \in 1..Len(barriers) : barriers[j] = BufferBarrier(dstStage, pool, buffer) }

\* one pipeline barrier with one vertex-input and one index-input barrier per pool of P
OneBarrierFor(cmds, P) ==
    /\ Len(cmds.pipelineBarriers) = 1
    /\ Len(cmds.pipelineBarriers[1]) = 2 * Cardinality(P)
    /\ \A pool \in P :
          /\ Cardinality(BarriersFor(cmds.pipelineBarriers[1], "VERTEX_INPUT", pool,
                                     "vertexBuffer")) = 1
          /\ Cardinality(BarriersFor(cmds.pipelineBarriers[1], "INDEX_INPUT", pool,
                                     "indexBuffer")) = 1

\* the pools named by the requests of the last call
Touched == { uploadCmds.requests[i].bufferIndex : i \in 1..Len(uploadCmds.requests) }

\* the bytes the requests of the last call ask to copy
BytesAsked ==
    { uploadCmds.requests[i].vertexBytes : i \in 1..Len(uploadCmds.requests) }
        \cup { uploadCmds.requests[i].indexBytes : i \in 1..Len(uploadCmds.requests) }

CopiesFrom(src, dst) ==
    { j \in 1..Len(uploadCmds.cmds.copies) :
        uploadCmds.cmds.copies[j].src = src /\ uploadCmds.cmds.copies[j].dst = dst }

\* C23 as stated: for a batch of N requests at most N copy_buffer commands are
\* recorded, all reading from the single staging vertex buffer and the single staging
\* index buffer.
C23_AtMostNCopies ==
    uploadCmds.called =>
        /\ Len(uploadCmds.cmds.copies) <= Len(uploadCmds.requests)
        /\ Len(uploadCmds.cmds.vertexStaging) <= 1
        /\ Len(uploadCmds.cmds.indexStaging) <= 1

\* C23 amended: for a batch of N requests at most 2 N copy_buffer commands are
\* recorded, one into the vertex buffer per request with vertex bytes, reading from
\* the single staging vertex buffer, and one into the index buffer per request with
\* index bytes, reading from the single staging index buffer.
C23_AtMostTwoCopiesPerRequest ==
    uploadCmds.called =>
        /\ Len(uploadCmds.cmds.copies) <= 2 * Len(uploadCmds.requests)
        /\ Len(uploadCmds.cmds.vertexStaging) <= 1
        /\ Len(uploadCmds.cmds.indexStaging) <= 1
        /\ BytesAsked # { 0 } =>
              /\ Cardinality(CopiesFrom("vertexStaging", "vertexBuffer")) =
                    Cardinality({ i \in 1..Len(uploadCmds.requests) :
                                    uploadCmds.requests[i].vertexBytes > 0 })
              /\ Cardinality(CopiesFrom("indexStaging", "indexBuffer")) =
                    Cardinality({ i \in 1..Len(uploadCmds.requests) :
                                    uploadCmds.requests[i].indexBytes > 0 })
              /\ Len(uploadCmds.cmds.copies) =
                    Cardinality(CopiesFrom("vertexStaging", "vertexBuffer"))
                        + Cardinality(CopiesFrom("indexStaging", "indexBuffer"))

\* a batch of three meshes was uploaded with six copies from one pair of staging buffers
C23_Witness ==
    /\ uploadCmds.called
    /\ Len(uploadCmds.requests) = MaxRequests
    /\ Len(uploadCmds.cmds.copies) = 2 * MaxRequests
    /\ Len(uploadCmds.cmds.vertexStaging) = 1
    /\ Len(uploadCmds.cmds.indexStaging) = 1

(***************************************************************************)
(* Chunk::generateMesh, Chunk.cpp lines 121-124 and 150-470.  The mesher   *)
(* runs on chunks of MESH_SIZE voxels per edge, a power of two as the      *)
(* code's CHUNK_SIZE; positions are << x, y, z >> and axis d is entry d + 1 *)
(***************************************************************************)
\* the chunk meshed has 2^ChunkBits voxels per edge
ChunkBits == 2

MESH_SIZE == Pow2(ChunkBits)

\* VoxelData::make(paletteIdx) with the default flags: a solid voxel
MeshVoxels == { VOXEL_AIR, 1, 2 }
IsSolid(v) == v # VOXEL_AIR
GetPaletteIndex(v) == v

\* Chunk.hpp lines 80-82
Idx(x, y, z) == x + y * MESH_SIZE + z * MESH_SIZE * MESH_SIZE

\* Chunk.cpp lines 52-55: the voxels after fill(v)
Filled(v) == [k \in 0..(MESH_SIZE * MESH_SIZE * MESH_SIZE - 1) |-> v]

Null == [null |-> TRUE]

\* the neighbors array with a chunk filled with stone at the positions in present
\* and nullptr elsewhere
NeighborsOf(present) == [n \in 0..5 |-> IF n \in present THEN Filled(1) ELSE Null]

InChunk(c) == c >= 0 /\ c < MESH_SIZE

Clamp(c) == IF c < 0 THEN 0 ELSE IF c >= MESH_SIZE THEN MESH_SIZE - 1 ELSE c

\* lines 292-328: the entry of volumeCache for position (x, y, z), each coordinate
\* in -1..MESH_SIZE
VolumeCache(m_voxels, neighbors, x, y, z) ==
    IF InChunk(x) /\ InChunk(y) /\ InChunk(z) THEN m_voxels[Idx(x, y, z)]
    ELSE LET sel == IF x >= MESH_SIZE THEN << 0, x - MESH_SIZE, y, z >>
                    ELSE IF x < 0 THEN << 1, x + MESH_SIZE, y, z >>
                    ELSE IF y >= MESH_SIZE THEN << 2, x, y - MESH_SIZE, z >>
                    ELSE IF y < 0 THEN << 3, x, y + MESH_SIZE, z >>
                    ELSE IF z >= MESH_SIZE THEN << 4, x, y, z - MESH_SIZE >>
                    ELSE << 5, x, y, z + MESH_SIZE >>
             nb == neighbors[sel[1]]
         IN  IF nb = Null THEN VOXEL_AIR
             ELSE nb[Idx(Clamp(sel[2]), Clamp(sel[3]), Clamp(sel[4]))]

\* lines 121-124
ComputeAO(side1, side2, corner) ==
    IF side1 /\ side2 THEN 0
    ELSE 3 - (IF side1 THEN 1 ELSE 0) - (IF side2 THEN 1 ELSE 0) - (IF corner THEN 1 ELSE 0)

Add(p, d, delta) == [p EXCEPT ![d + 1] = @ + delta]

SolidInCache(m_voxels, neighbors, p) == IsSolid(VolumeCache(m_voxels, neighbors, p[1], p[2], p[3]))

\* sampling in the voxel's own layer, without the step into the face plane
SampleAO_OwnLayer(m_voxels, neighbors, pos, d, du, dv, normalDir) ==
    LET u == (d + 1) % 3
        v == (d + 2) % 3
        base == pos
    IN  ComputeAO(SolidInCache(m_voxels, neighbors, Add(base, u, du)),
                  SolidInCache(m_voxels, neighbors, Add(base, v, dv)),
                  SolidInCache(m_voxels, neighbors, Add(Add(base, u, du), v, dv)))

\* lines 175-194: sampleAO(cache, pos, d, du, dv, normalDir)
SampleAO(m_voxels, neighbors, pos, d, du, dv, normalDir) ==
    LET u == (d + 1) % 3
        v == (d + 2) % 3
        base == Add(pos, d, IF normalDir > 0 THEN 1 ELSE 0 - 1)
    IN  ComputeAO(SolidInCache(m_voxels, neighbors, Add(base, u, du)),
                  SolidInCache(m_voxels, neighbors, Add(base, v, dv)),
                  SolidInCache(m_voxels, neighbors, Add(Add(base, u, du), v, dv)))

\* lines 150-155: a mask cell; faceID 0xFF is the empty cell
EMPTY_FACE == 255
EmptyCell == [faceID |-> EMPTY_FACE, paletteIdx |-> 0, ao |-> << 0, 0, 0, 0 >>]

\* canMerge that compares the faceID only
CanMerge_AnyPalette(ref, o) == o.faceID # EMPTY_FACE /\ ref.faceID = o.faceID

\* lines 159-161
CanMerge(ref, o) == o.faceID # EMPTY_FACE /\ ref.faceID = o.faceID /\ ref.paletteIdx = o.paletteIdx

\* the position with d-coordinate a, u-coordinate b and v-coordinate c
PosOf(d, a, b, c) ==
    IF d = 0 THEN << a, b, c >> ELSE IF d = 1 THEN << c, a, b >> ELSE << b, c, a >>

\* lines 359-383: the super-voxel next to pos in the normal direction is inside the
\* chunk and solid in each of its step x step voxels facing pos
IsNeighborSolid(m_voxels, pos, d, normalDir, step) ==
    \A dv \in 0..(step - 1), du \in 0..(step - 1) :
        LET chkPos == Add(Add(Add(pos, d, normalDir * step), (d + 1) % 3, du), (d + 2) % 3, dv)
        IN  /\ InChunk(chkPos[d + 1])
            /\ IsSolid(m_voxels[Idx(chkPos[1], chkPos[2], chkPos[3])])

\* lines 347-401: the mask cell of super-voxel (i, j) of a layer
MaskCell(m_voxels, neighbors, d, normalDir, layer, step, i, j) ==
    LET pos == PosOf(d, layer * step, i * step, j * step)
        vox == m_voxels[Idx(pos[1], pos[2], pos[3])]
    IN  IF ~IsSolid(vox) THEN EmptyCell
        ELSE IF IsNeighborSolid(m_voxels, pos, d, normalDir, step) THEN EmptyCell
        ELSE [faceID |-> d * 2 + (IF normalDir > 0 THEN 0 ELSE 1),
              paletteIdx |-> GetPaletteIndex(vox),
              ao |-> << SampleAO(m_voxels, neighbors, pos, d, 0 - 1, 0 - 1, normalDir),
                        SampleAO(m_voxels, neighbors, pos, d, 1, 0 - 1, normalDir),
                        SampleAO(m_voxels, neighbors, pos, d, 1, 1, normalDir),
                        SampleAO(m_voxels, neighbors, pos, d, 0 - 1, 1, normalDir) >>]

\* lines 344-402: the mask of a layer, the sequence of its cells: cell
\* c = j * gridSize + i is at position c + 1
BuildMask(m_voxels, neighbors, d, normalDir, layer, step, gridSize) ==
    [c \in 1..(gridSize * gridSize) |->
        MaskCell(m_voxels, neighbors, d, normalDir, layer, step,
                 (c - 1) % gridSize, (c - 1) \div gridSize)] \o << >>

\* a scan that never widens a quad
ExpandW_NoMerge(mask, ref, j, i, W, gridSize) == W

\* lines 411-414: the width of the quad that starts at cell (i, j)
RECURSIVE ExpandW(_, _, _, _, _, _)
ExpandW(mask, ref, j, i, W, gridSize) ==
    IF i + W < gridSize /\ CanMerge(ref, mask[j * gridSize + (i + W) + 1])
    THEN ExpandW(mask, ref, j, i, W + 1, gridSize)
    ELSE W

\* lines 417-427: its height
RECURSIVE ExpandH(_, _, _, _, _, _, _)
ExpandH(mask, ref, j, i, W, H, gridSize) ==
    IF j + H < gridSize
       /\ \A k \in 0..(W - 1) : CanMerge(ref, mask[(j + H) * gridSize + (i + k) + 1])
    THEN ExpandH(mask, ref, j, i, W, H + 1, gridSize)
    ELSE H

\* the corners emitted in the order 0, 1, 2, 3 for both directions
VOrder_NoMirror(normalDir) == << 0, 1, 2, 3 >>

\* lines 206-214: vOrder
VOrder(normalDir) == IF normalDir > 0 THEN << 0, 1, 2, 3 >> ELSE << 3, 2, 1, 0 >>

\* the test of line 231 turned round
FlipDiagonal_Inverted(vAO) == vAO[1] + vAO[3] > vAO[2] + vAO[4]

\* line 231: the test that selects the split along (1, 3); vAO[1..4] are the code's
\* vAO[0..3]
FlipDiagonal(vAO) == vAO[1] + vAO[3] < vAO[2] + vAO[4]

\* the split along (0, 2) whatever the AO values are
QuadIndices_NoFlip(baseIdx, vAO) ==
    << baseIdx + 0, baseIdx + 1, baseIdx + 2, baseIdx + 0, baseIdx + 2, baseIdx + 3 >>

\* lines 230-245: the six indices of a quad
QuadIndices(baseIdx, vAO) ==
    IF FlipDiagonal(vAO)
    THEN << baseIdx + 1, baseIdx + 2, baseIdx + 3, baseIdx + 1, baseIdx + 3, baseIdx + 0 >>
    ELSE << baseIdx + 0, baseIdx + 1, baseIdx + 2, baseIdx + 0, baseIdx + 2, baseIdx + 3 >>

\* static_cast<uint8_t>
U8(n) == n % 256

\* lines 199-246: emitQuad; corners[1..4] are the code's corners[0..3], ao likewise
EmitQuad(mesh, corners, faceID, paletteIdx, ao, normalDir) ==
    LET vOrder == VOrder(normalDir)
        vAO == [c \in 1..4 |-> ao[vOrder[c] + 1]]
        baseIdx == Len(mesh.vertices)
        verts == [c \in 1..4 |->
                    LET co == corners[vOrder[c] + 1]
                    IN  [x |-> U8(co[1]), y |-> U8(co[2]), z |-> U8(co[3]),
                         faceID |-> faceID, ao |-> vAO[c], paletteIdx |-> paletteIdx]]
    IN  [vertices |-> mesh.vertices \o verts,
         indices |-> mesh.indices \o QuadIndices(baseIdx, vAO)]

\* lines 453-455: the cells of a quad drawn have faceID 0xFF; used holds their numbers
CellAt(mask, used, c) ==
    IF c \in used THEN [mask[c + 1] EXCEPT !.faceID = EMPTY_FACE] ELSE mask[c + 1]

\* lines 405-408: the cells from cell c on, in scan order (row j, then column i),
\* that are not empty
FacesFrom(mask, used, c, gridSize) ==
    { o \in c..(gridSize * gridSize - 1) : CellAt(mask, used, o).faceID # EMPTY_FACE }

\* lines 405-459: the greedy scan of a layer's mask from cell c = j * gridSize + i on:
\* the emitQuad calls it makes, in order
RECURSIVE GreedyScan(_, _, _, _, _, _, _, _)
GreedyScan(mask, used, c, d, normalDir, layer, step, gridSize) ==
    LET faces == FacesFrom(mask, used, c, gridSize)
    IN  IF faces = { } THEN << >>
        ELSE LET first == CHOOSE o \in faces : \A other \in faces : o <= other
                 i == first % gridSize
                 j == first \div gridSize
                 now == [o \in 1..(gridSize * gridSize) |-> CellAt(mask, used, o - 1)]
                 ref == now[j * gridSize + i + 1]
                 W == ExpandW(now, ref, j, i, 1, gridSize)
                 H == ExpandH(now, ref, j, i, W, 1, gridSize)
                 vi == i * step
                 vj == j * step
                 vW == W * step
                 vH == H * step
                 faceLayer == layer * step + (IF normalDir > 0 THEN step ELSE 0)
                 corners == << PosOf(d, faceLayer, vi, vj), PosOf(d, faceLayer, vi + vW, vj),
                               PosOf(d, faceLayer, vi + vW, vj + vH),
                               PosOf(d, faceLayer, vi, vj + vH) >>
                 ao == << now[j * gridSize + i + 1].ao[1],
                          now[j * gridSize + (i + W - 1) + 1].ao[2],
                          now[(j + H - 1) * gridSize + (i + W - 1) + 1].ao[3],
                          now[(j + H - 1) * gridSize + i + 1].ao[4] >>
                 cells == { jj * gridSize + ii : jj \in j..(j + H - 1), ii \in i..(i + W - 1) }
             IN  << [corners |-> corners, faceID |-> ref.faceID, paletteIdx |-> ref.paletteIdx,
                     ao |-> ao, normalDir |-> normalDir] >>
                 \o GreedyScan(mask, used \cup cells, first + W, d, normalDir, layer, step,
                               gridSize)

\* lines 341-459: the emitQuad calls of the layers from layer on, for one axis and one
\* direction
RECURSIVE MeshLayers(_, _, _, _, _, _, _)
MeshLayers(m_voxels, neighbors, d, normalDir, layer, step, gridSize) ==
    IF layer >= gridSize THEN << >>
    ELSE GreedyScan(BuildMask(m_voxels, neighbors, d, normalDir, layer, step, gridSize),
                    { }, 0, d, normalDir, layer, step, gridSize)
         \o MeshLayers(m_voxels, neighbors, d, normalDir, layer + 1, step, gridSize)

\* lines 331-462: the loops over d and normalDir (+1, then -1): the emitQuad calls of
\* all layers, in order
MeshFaces(m_voxels, neighbors, step, gridSize) ==
    MeshLayers(m_voxels, neighbors, 0, 1, 0, step, gridSize)
    \o MeshLayers(m_voxels, neighbors, 0, 0 - 1, 0, step, gridSize)
    \o MeshLayers(m_voxels, neighbors, 1, 1, 0, step, gridSize)
    \o MeshLayers(m_voxels, neighbors, 1, 0 - 1, 0, step, gridSize)
    \o MeshLayers(m_voxels, neighbors, 2, 1, 0, step, gridSize)
    \o MeshLayers(m_voxels, neighbors, 2, 0 - 1, 0, step, gridSize)

\* the mesh after the first k emitQuad calls
RECURSIVE EmitQuads(_, _)
EmitQuads(calls, k) ==
    IF k = 0 THEN [vertices |-> << >>, indices |-> << >>]
    ELSE EmitQuad(EmitQuads(calls, k - 1), calls[k].corners, calls[k].faceID,
                  calls[k].paletteIdx, calls[k].ao, calls[k].normalDir)

\* lines 273-470: generateMesh(neighbors, lod)
GenerateMesh(m_voxels, neighbors, lod) ==
    LET l == IF lod < 0 THEN 0 ELSE IF lod > 2 THEN 2 ELSE lod
        step == Pow2(l)
        gridSize == MESH_SIZE \div step
        calls == MeshFaces(m_voxels, neighbors, step, gridSize)
    IN  EmitQuads(calls, Len(calls))

\* the voxels the edits go to
MeshEdits == { << 0, 0, 0 >>, << 1, 1, 0 >>, << 1, 1, 1 >>, << 1, 0, 1 >> }

\* the neighbours a chunk is meshed with: none or all six
NeighborChoices == { { }, 0..5 }

NoMesh == [called |-> FALSE]

\* Chunk.hpp line 76: a chunk is constructed with its voxels zeroed
MeshInit ==
    /\ chunkVoxels = Filled(VOXEL_AIR)
    /\ meshCall = NoMesh

nonMeshVars == << workerVars, allocVars, geomVars, rendVars, lodVars, cmVars, voxelVars,
                  uploadVars, drawVars, splitVars, createVars, raceVars >>

\* Chunk.cpp lines 52-55: fill(v)
chunkFill ==
    \E v \in MeshVoxels :
        /\ chunkVoxels' = Filled(v)
        /\ meshCall' = NoMesh
        /\ UNCHANGED nonMeshVars

\* Chunk.cpp lines 43-46: setVoxel(x, y, z, v)
chunkSetVoxel ==
    \E p \in MeshEdits, v \in { VOXEL_AIR, 1 } :
        /\ chunkVoxels' = [chunkVoxels EXCEPT ![Idx(p[1], p[2], p[3])] = v]
        /\ meshCall' = NoMesh
        /\ UNCHANGED nonMeshVars

\* a call of generateMesh(neighbors, lod), with lod below and above the valid range
\* too, for a chunk that is dirty: fill and setVoxel set m_isDirty (lines 45, 54) and
\* the chunk is clean once its mesh is there (ChunkRenderer.cpp line 238)
generateMesh ==
    \E present \in NeighborChoices, lod \in (0 - 1)..3 :
        /\ ~meshCall.called
        /\ meshCall' = [called |-> TRUE, lod |-> lod, present |-> present,
                        mesh |-> GenerateMesh(chunkVoxels, NeighborsOf(present), lod)]
        /\ UNCHANGED chunkVoxels
        /\ UNCHANGED nonMeshVars

MeshNext == chunkFill \/ chunkSetVoxel \/ generateMesh

(***************************************************************************)
(* Claims about Chunk::generateMesh.                                       *)
(***************************************************************************)
\* the quads of the last mesh, numbered from 0: four vertices and six indices each
Quads == 0..((Len(meshCall.mesh.vertices) \div 4) - 1)

\* vertex k (0..3) of quad q, in emission order
QuadVertex(q, k) == meshCall.mesh.vertices[4 * q + k + 1]

VertexPos(vert) == << vert.x, vert.y, vert.z >>

\* the corners of triangle t (0 or 1) of quad q, as vertex numbers 0..3 of the quad
Triangle(q, t) == { meshCall.mesh.indices[6 * q + 3 * t + n] - 4 * q : n \in 1..3 }

\* the corners both triangles of quad q use
SharedDiagonal(q) == Triangle(q, 0) \cap Triangle(q, 1)

\* the four corners of the chunk's face f
ChunkFace(f) ==
    { PosOf(f \div 2, IF f % 2 = 0 THEN MESH_SIZE ELSE 0, a, b) : a, b \in { 0, MESH_SIZE } }

QuadCorners(q) == { VertexPos(QuadVertex(q, k)) : k \in 0..3 }

\* the chunk is filled with one solid block
FilledSolid == \E v \in MeshVoxels \ { VOXEL_AIR } : chunkVoxels = Filled(v)

\* C24: a chunk filled with one solid block and meshed without neighbours gives 6
\* quads, 24 vertices and 36 indices at LOD 0, one quad per face of the chunk and each
\* covering the whole face, and the same vertex and index counts at LOD 1 and LOD 2.
C24_SolidChunkSixQuads ==
    meshCall.called /\ FilledSolid /\ meshCall.present = { } =>
        /\ Len(meshCall.mesh.vertices) = 24
        /\ Len(meshCall.mesh.indices) = 36
        /\ Quads = 0..5
        /\ meshCall.lod <= 0 =>
              \A f \in 0..5 :
                  \E q \in Quads : QuadVertex(q, 0).faceID = f /\ QuadCorners(q) = ChunkFace(f)

\* the solid chunk was meshed without neighbours at LOD 2
C24_Witness ==
    /\ meshCall.called
    /\ FilledSolid
    /\ meshCall.present = { }
    /\ meshCall.lod = 2
    /\ Len(meshCall.mesh.vertices) = 24

Minus(a, b) == << a[1] - b[1], a[2] - b[2], a[3] - b[3] >>

Cross(a, b) ==
    << a[2] * b[3] - a[3] * b[2], a[3] * b[1] - a[1] * b[3], a[1] * b[2] - a[2] * b[1] >>

\* the vector c points along the outward normal of face f: faces 0, 2, 4 look along
\* +X, +Y, +Z and faces 1, 3, 5 along -X, -Y, -Z
AlongNormal(c, f) ==
    \A n \in 1..3 :
        IF n = (f \div 2) + 1
        THEN (IF f % 2 = 0 THEN c[n] > 0 ELSE c[n] < 0)
        ELSE c[n] = 0

\* C25: for every emitted quad, on every axis, in both directions and at every LOD,
\* cross(v1 - v0, v2 - v0) of its first three emitted vertices points along the
\* outward normal of the quad's faceID.
C25_Winding ==
    meshCall.called =>
        \A q \in Quads :
            AlongNormal(Cross(Minus(VertexPos(QuadVertex(q, 1)), VertexPos(QuadVertex(q, 0))),
                              Minus(VertexPos(QuadVertex(q, 2)), VertexPos(QuadVertex(q, 0)))),
                        QuadVertex(q, 0).faceID)

\* a mesh at LOD 1 with quads of all six faces, one of them wider than a super-voxel
C25_Witness ==
    /\ meshCall.called
    /\ meshCall.lod = 1
    /\ { QuadVertex(q, 0).faceID : q \in Quads } = 0..5
    /\ \E q \in Quads : QuadVertex(q, 0).faceID = 1 /\ QuadCorners(q) = ChunkFace(1)

\* the sum of the emitted AO values of corners k and k + 2 of quad q
DiagonalSum(q, k) == QuadVertex(q, k).ao + QuadVertex(q, k + 2).ao

\* C26: for every emitted quad with emitted corner AO (a0, a1, a2, a3) the two
\* triangles share the diagonal (0, 2) when a0 + a2 >= a1 + a3 and the diagonal
\* (1, 3) otherwise, in both normal directions.
C26_DiagonalByAOSums ==
    meshCall.called =>
        \A q \in Quads :
            SharedDiagonal(q) =
                IF DiagonalSum(q, 0) >= DiagonalSum(q, 1) THEN { 0, 2 } ELSE { 1, 3 }

\* a mesh with a quad split along (1, 3) on a face that looks along a negative axis
\* and a quad split along (0, 2) although its sums differ
C26_Witness ==
    /\ meshCall.called
    /\ \E q \in Quads :
          /\ QuadVertex(q, 0).faceID % 2 = 1
          /\ DiagonalSum(q, 0) < DiagonalSum(q, 1)
          /\ SharedDiagonal(q) = { 1, 3 }
    /\ \E q \in Quads :
          /\ DiagonalSum(q, 0) > DiagonalSum(q, 1)
          /\ SharedDiagonal(q) = { 0, 2 }

\* the pair of opposing corners of quad q with the smaller AO sum, the darker pair
DarkerPair(q) == IF DiagonalSum(q, 0) < DiagonalSum(q, 1) THEN { 0, 2 } ELSE { 1, 3 }

\* C27 as stated: for every emitted quad whose two opposing corner pairs have
\* different AO sums, the shared diagonal connects the darker pair, the one with the
\* smaller AO sum.
C27_DiagonalThroughDarkerPair ==
    meshCall.called =>
        \A q \in Quads :
            DiagonalSum(q, 0) # DiagonalSum(q, 1) => SharedDiagonal(q) = DarkerPair(q)

\* C27 amended: for every emitted quad whose two opposing corner pairs have different
\* AO sums, the shared diagonal connects the brighter pair, the one with the larger AO
\* sum, so that the darker pair lies off the diagonal.
C27_DiagonalThroughBrighterPair ==
    meshCall.called =>
        \A q \in Quads :
            DiagonalSum(q, 0) # DiagonalSum(q, 1) =>
                /\ SharedDiagonal(q) # DarkerPair(q)
                /\ SharedDiagonal(q) = { 0, 1, 2, 3 } \ DarkerPair(q)

\* a mesh with a quad that has one occluded corner
C27_Witness ==
    /\ meshCall.called
    /\ \E q \in Quads, k \in 0..3 :
          /\ QuadVertex(q, k).ao < 3
          /\ \A n \in 0..3 \ { k } : QuadVertex(q, n).ao = 3
          /\ k \notin SharedDiagonal(q)

\* the chunk whose only solid voxels are (0, 0, 0) and p
TwoVoxels(p) ==
    /\ IsSolid(chunkVoxels[Idx(0, 0, 0)])
    /\ IsSolid(chunkVoxels[Idx(p[1], p[2], p[3])])
    /\ \A k \in DOMAIN chunkVoxels :
          k \notin { Idx(0, 0, 0), Idx(p[1], p[2], p[3]) } => chunkVoxels[k] = VOXEL_AIR

\* the quads of the +Z face of voxel (0, 0, 0)
TopFaceQuads ==
    { q \in Quads : /\ QuadVertex(q, 0).faceID = 4
                    /\ QuadCorners(q) = { << 0, 0, 1 >>, << 1, 0, 1 >>, << 1, 1, 1 >>, << 0, 1, 1 >> } }

\* the emitted AO values of the corner at position p of quad q
CornerAO(q, p) == { QuadVertex(q, k).ao : k \in { n \in 0..3 : VertexPos(QuadVertex(q, n)) = p } }

\* C28 as stated: with (0, 0, 0) and (1, 1, 0) the only solid voxels, the +Z face quad
\* of voxel (0, 0, 0) at LOD 0 has AO < 3 at its corner nearest to (1, 1, 0).
C28_DiagonalVoxelOccludes ==
    meshCall.called /\ meshCall.lod <= 0 /\ TwoVoxels(<< 1, 1, 0 >>) =>
        /\ TopFaceQuads # { }
        /\ \A q \in TopFaceQuads : \A a \in CornerAO(q, << 1, 1, 1 >>) : a < 3

\* C28 amended: with (0, 0, 0) and (1, 1, 0) the only solid voxels of the chunk, the +Z
\* face quad of voxel (0, 0, 0) at LOD 0 has AO 3 at its corner nearest to (1, 1, 0),
\* since (1, 1, 0) lies below the layer the corner samples (and AO 3 at all four corners
\* when no neighbour chunk is present); with (0, 0, 0) and (1, 1, 1) the only solid
\* voxels that corner has AO 2.
C28_OnlyVoxelsAboveThePlaneOcclude ==
    /\ meshCall.called /\ meshCall.lod <= 0 /\ TwoVoxels(<< 1, 1, 0 >>) =>
          /\ Cardinality(TopFaceQuads) = 1
          /\ \A q \in TopFaceQuads :
                /\ CornerAO(q, << 1, 1, 1 >>) = { 3 }
                /\ meshCall.present = { } => \A k \in 0..3 : QuadVertex(q, k).ao = 3
    /\ meshCall.called /\ meshCall.lod <= 0 /\ TwoVoxels(<< 1, 1, 1 >>) =>
          /\ Cardinality(TopFaceQuads) = 1
          /\ \A q \in TopFaceQuads : CornerAO(q, << 1, 1, 1 >>) = { 2 }

\* the chunk with (0, 0, 0) and (1, 1, 0) was meshed at LOD 0
C28_Witness ==
    /\ meshCall.called
    /\ meshCall.lod = 0
    /\ TwoVoxels(<< 1, 1, 0 >>)
    /\ \E q \in TopFaceQuads : CornerAO(q, << 1, 1, 1 >>) = { 3 }

(***************************************************************************)
(* ChunkRenderer::render (ChunkRenderer.cpp lines 125-158).                *)
(***************************************************************************)
\* the number of chunks of the world that is drawn
MaxRecords == 3

DrawKeys == 1..MaxRecords

\* the quads of a mesh that is installed
DrawQuads == { 1, 2 }

\* a gfx::Mesh that allocateMeshRaw returned
DrawMesh == [null |-> FALSE]

\* lines 193-204: a valid record gives up its mesh and keeps its counts
Released(rd) == IF rd.valid THEN [rd EXCEPT !.mesh = NullMesh, !.valid = FALSE] ELSE rd

\* lines 223-228: the record takes the mesh of a result of q quads
WithMesh(rd, q) ==
    [rd EXCEPT !.mesh = DrawMesh, !.vertexCount = 4 * q, !.indexCount = 6 * q, !.valid = TRUE]

NoCounts == [visibleCount |-> 0, culledCount |-> 0, visibleVertices |-> 0]

\* a loop that skips no record of the map
RenderRecord_NoValidTest(rd, seen, c) ==
    IF rd = NoRecord THEN c
    ELSE IF ~seen THEN [c EXCEPT !.culledCount = @ + 1]
    ELSE [c EXCEPT !.visibleCount = @ + 1, !.visibleVertices = @ + rd.vertexCount]

\* lines 132-156: the body of the loop for one record of the map; seen is the result
\* of frustum.isVisible(rd.aabb), c the counters so far
RenderRecord(rd, seen, c) ==
    IF rd = NoRecord THEN c
    ELSE IF ~rd.valid \/ rd.mesh = NullMesh THEN c
    ELSE IF ~seen THEN [c EXCEPT !.culledCount = @ + 1]
    ELSE [c EXCEPT !.visibleCount = @ + 1, !.visibleVertices = @ + rd.vertexCount]

\* lines 126-157: the counters after the records of the keys 1..k; frustum is the set
\* of keys whose AABB the frustum passes
RECURSIVE Render(_, _, _)
Render(data, frustum, k) ==
    IF k = 0 THEN NoCounts
    ELSE RenderRecord(data[k], k \in frustum, Render(data, frustum, k - 1))

\* a call that is not render
NotRender(op) == [op |-> op, frustum |-> { }]

\* ChunkRenderer.hpp lines 69-73: an empty map and counters of 0
DrawInit ==
    /\ drawData = [k \in DrawKeys |-> NoRecord]
    /\ visibleCount = 0
    /\ culledCount = 0
    /\ visibleVertices = 0
    /\ renderCall = NotRender("none")

nonDrawVars == << workerVars, allocVars, geomVars, rendVars, lodVars, cmVars, voxelVars,
                  uploadVars, meshVars, splitVars, createVars, raceVars >>

\* lines 183-238: rebuildDirtyChunks handles the result of one key: the record is
\* created if absent and released; a MESH result with q > 0 quads that allocateMeshRaw
\* finds room for is installed, any other result (GENERATE, an empty mesh, a throw of
\* allocateMeshRaw) leaves the record released
drawRebuild ==
    /\ \E k \in DrawKeys, q \in { 0 } \cup DrawQuads :
          LET rd == Released(IF drawData[k] = NoRecord THEN DefaultRecord ELSE drawData[k])
          IN  drawData' = [drawData EXCEPT ![k] = IF q = 0 THEN rd ELSE WithMesh(rd, q)]
    /\ renderCall' = NotRender("rebuildDirtyChunks")
    /\ UNCHANGED << visibleCount, culledCount, visibleVertices >>
    /\ UNCHANGED nonDrawVars

\* lines 249-262: removeChunk(key) erases the record
drawRemoveChunk ==
    /\ \E k \in DrawKeys :
          /\ drawData[k] # NoRecord
          /\ drawData' = [drawData EXCEPT ![k] = NoRecord]
    /\ renderCall' = NotRender("removeChunk")
    /\ UNCHANGED << visibleCount, culledCount, visibleVertices >>
    /\ UNCHANGED nonDrawVars

\* lines 14-25: clear()
drawClear ==
    /\ drawData' = [k \in DrawKeys |-> NoRecord]
    /\ visibleCount' = 0
    /\ culledCount' = 0
    /\ visibleVertices' = 0
    /\ renderCall' = NotRender("clear")
    /\ UNCHANGED nonDrawVars

\* lines 125-158: render(cmd, layout, frustum, currentTime)
render ==
    /\ \E frustum \in SUBSET DrawKeys :
          LET c == Render(drawData, frustum, MaxRecords)
          IN  /\ visibleCount' = c.visibleCount
              /\ culledCount' = c.culledCount
              /\ visibleVertices' = c.visibleVertices
              /\ renderCall' = [op |-> "render", frustum |-> frustum]
    /\ UNCHANGED drawData
    /\ UNCHANGED nonDrawVars

DrawNext == drawRebuild \/ drawRemoveChunk \/ drawClear \/ render

(***************************************************************************)
(* Claims about ChunkRenderer::render.                                     *)
(***************************************************************************)
\* the keys of the valid records
ValidRecords == { k \in DrawKeys : drawData[k] # NoRecord /\ drawData[k].valid }

\* the sum of vertexCount over the records of the keys in S
RECURSIVE SumVertexCount(_)
SumVertexCount(S) ==
    IF S = { } THEN 0
    ELSE LET k == CHOOSE x \in S : TRUE
         IN  drawData[k].vertexCount + SumVertexCount(S \ { k })

\* C29: after every render call visibleCount + culledCount is the number of valid
\* records and visibleVertices is the sum of vertexCount over the valid records that
\* passed the frustum test; records that are not valid count in neither.
C29_CountersMatchValidRecords ==
    renderCall.op = "render" =>
        /\ visibleCount + culledCount = Cardinality(ValidRecords)
        /\ visibleCount = Cardinality(ValidRecords \cap renderCall.frustum)
        /\ culledCount = Cardinality(ValidRecords \ renderCall.frustum)
        /\ visibleVertices = SumVertexCount(ValidRecords \cap renderCall.frustum)

\* a frame with two visible records of different sizes, and a released record with
\* a vertex count left inside the frustum
C29_Witness ==
    /\ renderCall.op = "render"
    /\ visibleCount = 2
    /\ visibleVertices = 12
    /\ \E k \in renderCall.frustum :
          drawData[k] # NoRecord /\ ~drawData[k].valid /\ drawData[k].vertexCount > 0

(***************************************************************************)
(* worldToChunk (ChunkStorage.cpp lines 12-15, ChunkManager.cpp lines      *)
(* 219-223: the same function in both files).                              *)
(***************************************************************************)
\* the world coordinates the calls are made with: -MaxWorld..MaxWorld
MaxWorld == 100

WorldCoords == (0 - MaxWorld)..MaxWorld

NoSplit == [called |-> FALSE]

SplitInit == splitCall = NoSplit

nonSplitVars == << workerVars, allocVars, geomVars, rendVars, lodVars, cmVars, voxelVars,
                   uploadVars, meshVars, drawVars, createVars, raceVars >>

\* getVoxel and setVoxel split each of wx, wy, wz with worldToChunk(w, CHUNK_SIZE, c, l)
\* (ChunkStorage.cpp lines 159-179; ChunkManager.cpp lines 228-246)
splitCoordinate ==
    /\ \E wx \in WorldCoords :
          splitCall' = [called |-> TRUE, wx |-> wx,
                        cx |-> worldToChunk(wx).c, lx |-> worldToChunk(wx).l]
    /\ UNCHANGED nonSplitVars

SplitNext == splitCoordinate

(***************************************************************************)
(* Claims about worldToChunk.                                              *)
(***************************************************************************)
\* C30: for every world coordinate w, negative ones included, the chunk coordinate c
\* and the local coordinate l that worldToChunk computes satisfy c = floor(w / CHUNK_SIZE),
\* 0 <= l < CHUNK_SIZE and c * CHUNK_SIZE + l = w; w = -1 gives c = -1 and l = 31.
C30_FloorSplit ==
    splitCall.called =>
        /\ \A c \in (0 - MaxWorld)..MaxWorld :
              (c * CHUNK_SIZE <= splitCall.wx /\ splitCall.wx < (c + 1) * CHUNK_SIZE)
                  => splitCall.cx = c
        /\ 0 <= splitCall.lx /\ splitCall.lx < CHUNK_SIZE
        /\ splitCall.cx * CHUNK_SIZE + splitCall.lx = splitCall.wx
        /\ splitCall.wx = 0 - 1 => splitCall.cx = 0 - 1 /\ splitCall.lx = 31

\* the coordinate -1 was split into chunk -1 and local coordinate CHUNK_SIZE - 1
C30_Witness ==
    /\ splitCall.called
    /\ splitCall.wx = 0 - 1
    /\ splitCall.cx = 0 - 1
    /\ splitCall.lx = CHUNK_SIZE - 1

(***************************************************************************)
(* ChunkManager::updateCamera (ChunkManager.cpp lines 181-202)             *)
(***************************************************************************)
\* lines 185-186: the LOD m_chunkLOD holds for key, -1 when it holds none
CmLodOf(lods, key) ==
    IF \E e \in lods : e[1] = key THEN (CHOOSE e \in lods : e[1] = key)[2] ELSE 0 - 1

\* calculateLOD (lines 120-172) for the camera position cam
CmCalculateLOD(cam, key, currentLOD) ==
    LodOf(DistSq(cam, key[1], key[2], key[3]), lodParams, currentLOD)

\* lines 286-287: the LOD flushDirty computes for key, calculateLOD(key.x, key.y, key.z)
\* with the default currentLOD = -1
CmFlushLOD(cam, lods, key) == CmCalculateLOD(cam, key, 0 - 1)

\* lines 181-202: updateCamera(cameraPos): the camera moves along x at the height of
\* the chunks' centres, in steps of a quarter chunk; the loop of lines 184-195 stores calculateLOD(key, oldLOD) and
\* marks the chunk when the LOD changed, line 201 runs flushDirty (lines 279-291)
cmUpdateCamera ==
    /\ \E x \in { c \in 0..MaxCamera : c % (CHUNK_SIZE \div 4) = 0 } :
          LET cam == [x |-> x, y |-> CHUNK_SIZE \div 2, z |-> CHUNK_SIZE \div 2]
              newLOD(k) == CmCalculateLOD(cam, k, CmLodOf(cmChunkLOD, k))
              changed == { k \in cmChunks : newLOD(k) # CmLodOf(cmChunkLOD, k) }
              looped == { e \in cmChunkLOD : e[1] \notin changed }
                            \cup { << k, newLOD(k) >> : k \in changed }
              dirty == (cmDirtyPending \cup changed) \cap cmChunks
              tasks == { << k, CmFlushLOD(cam, looped, k) >> : k \in dirty }
          IN  /\ Len(cmQueue) + Cardinality(tasks) <= MaxCmQueue
              /\ m_cameraPos' = cam
              /\ cmChunkLOD' = { e \in looped : e[1] \notin dirty } \cup tasks
              /\ cmQueue' = cmQueue \o IterationOrder(tasks)
              /\ cmCall' = [op |-> "updateCamera", changed |-> changed]
    /\ cmDirtyPending' = { }
    /\ UNCHANGED << cmChunks, cmVoxels >>
    /\ UNCHANGED << lodParams, lodCurrent, lodArg >>
    /\ UNCHANGED << workerVars, allocVars, geomVars, rendVars, voxelVars, moreVars >>

CameraNext == cmGenerateWorld \/ cmUpdateCamera \/ cmWorkersRun

(***************************************************************************)
(* Claims about updateCamera.                                              *)
(***************************************************************************)
\* C33: after updateCamera, for every chunk whose LOD the call changed, the LOD that
\* m_chunkLOD holds and the LOD of the MESH task the flush submitted for the chunk both
\* equal calculateLOD(chunk, previous LOD): the flush does not replace the LOD that
\* the hysteresis gave.
C33_FlushKeepsHysteresisLOD ==
    [][cmCall'.op = "updateCamera" =>
          \A k \in cmCall'.changed :
              LET lod == CmCalculateLOD(m_cameraPos', k, CmLodOf(cmChunkLOD, k))
              IN  /\ CmLodOf(cmChunkLOD', k) = lod
                  /\ \E i \in (Len(cmQueue) + 1)..Len(cmQueue') : cmQueue'[i] = << k, lod >>]_vars

(***************************************************************************)
(* GeometryManager with meshes of both vertex types in its pools:          *)
(* allocateMeshRaw<VoxelVertex> (ChunkRenderer.cpp line 224) and           *)
(* allocateMeshRaw<Vertex> (uploadMesh, GeometryManager.cpp lines 129-136) *)
(***************************************************************************)
\* sizeof(gfx::Vertex), Mesh.hpp lines 9-15
VERTEX_SIZE == 48

\* the vertex and index counts of the meshes uploadMesh is called with
UploadCounts == { << 1, 3 >>, << 2, 3 >> }

\* the entry of meshes for the outcome r of allocateMeshRaw<T>, sizeof(T) = stride
MeshEntry(r, stride) ==
    [mesh |-> r.mesh, vertexBytes |-> r.request.vertexBytes,
     indexBytes |-> r.request.indexBytes, stride |-> stride, request |-> r.request]

\* largest number of meshes handed out and not yet freed
MaxMeshes == 2

\* ChunkRenderer.cpp line 224: allocateMeshRaw<VoxelVertex> (GeometryManager.hpp lines
\* 94-134) for a mesh of q quads
allocateVoxelMesh ==
    /\ Cardinality(meshes) < MaxMeshes
    /\ \E q \in 1..MaxQuads :
        /\ Len(pools) < MaxPools \/ ~NeedsNewPool(pools, 4 * q, 6 * q, VOXEL_VERTEX_SIZE)
        /\ LET r == AllocateMeshRaw(pools, 4 * q, 6 * q, VOXEL_VERTEX_SIZE)
           IN  /\ pools' = r.pools
               /\ geomThrown' = r.thrown
               /\ meshes' = IF r.thrown THEN meshes
                            ELSE meshes \cup { MeshEntry(r, VOXEL_VERTEX_SIZE) }
    /\ UNCHANGED nonGeomVars

\* GeometryManager.cpp lines 129-136: uploadMesh(vertices, indices), which calls
\* allocateMeshRaw<Vertex>
uploadMesh ==
    /\ Cardinality(meshes) < MaxMeshes
    /\ \E c \in UploadCounts :
        /\ Len(pools) < MaxPools \/ ~NeedsNewPool(pools, c[1], c[2], VERTEX_SIZE)
        /\ LET r == AllocateMeshRaw(pools, c[1], c[2], VERTEX_SIZE)
           IN  /\ pools' = r.pools
               /\ geomThrown' = r.thrown
               /\ meshes' = IF r.thrown THEN meshes
                            ELSE meshes \cup { MeshEntry(r, VERTEX_SIZE) }
    /\ UNCHANGED nonGeomVars

\* GeometryManager.hpp lines 142-148: freeMesh with the offsets of a Mesh handed out
\* before, its byte sizes and the size of its vertex type
freeMeshOfStride ==
    \E m \in meshes :
        /\ pools' = FreeMesh(pools, m.mesh.vertexOffset, m.mesh.firstIndex,
                             m.vertexBytes, m.indexBytes, m.stride, m.mesh.bufferIndex)
        /\ meshes' = meshes \ { m }
        /\ geomThrown' = FALSE
        /\ UNCHANGED nonGeomVars

StrideNext == allocateVoxelMesh \/ uploadMesh \/ freeMeshOfStride

(***************************************************************************)
(* Claims about the element offsets of a Mesh.                             *)
(***************************************************************************)
\* C34: for the vertex sizes 8 (VoxelVertex) and 48 (gfx::Vertex), also with meshes of
\* both types in one pool, every Mesh that allocateMeshRaw returned has
\* vertexOffset * sizeof(T) = the vertex byte offset that was allocated and
\* firstIndex * 4 = the index byte offset that was allocated, so that freeMesh with
\* the offsets of the Mesh releases the ranges that were allocated.
C34_ElementOffsetsRoundTrip ==
    \A m \in meshes :
        /\ m.mesh.vertexOffset * m.stride = m.request.vertexOffset
        /\ m.mesh.firstIndex * INDEX_SIZE = m.request.indexOffset

(***************************************************************************)
(* Claims about the GPU ranges of the render records.                      *)
(***************************************************************************)
\* the rounded vertex and index bytes that the record of key k holds in pool number
\* pool (0-based), << 0, 0 >> when the record is absent, invalid or in another pool
RecordBytes(k, pool) ==
    LET rd == renderData[k]
    IN  IF rd # NoRecord /\ rd.valid /\ rd.mesh # NullMesh /\ rd.mesh.bufferIndex = pool
        THEN << AlignUp(rd.vertexCount * VOXEL_VERTEX_SIZE, ALLOC_ALIGN),
                AlignUp(rd.indexCount * INDEX_SIZE, ALLOC_ALIGN) >>
        ELSE << 0, 0 >>

RECURSIVE SumRecordBytes(_, _, _)
SumRecordBytes(k, pool, f) ==
    IF k = 0 THEN 0 ELSE RecordBytes(k, pool)[f] + SumRecordBytes(k - 1, pool, f)

\* C35: after any sequence of rebuildDirtyChunks, removeChunk and clear that returned,
\* the bytes reserved in every pool are the sum of the alignment-rounded vertex and
\* index byte sizes of the valid render records: every record that was replaced,
\* removed or cleared gave both of its ranges back, once.
C35_ReservedBytesMatchRecords ==
    ~drainEscaped =>
        \A p \in 1..Len(pools) :
            /\ pools[p].vertexAllocator.m_allocated_bytes = SumRecordBytes(MaxChunks, p - 1, 1)
            /\ pools[p].indexAllocator.m_allocated_bytes = SumRecordBytes(MaxChunks, p - 1, 2)

(***************************************************************************)
(* The worker threads executing tasks (MeshWorker.hpp lines 156-170) while *)
(* the main thread goes on with ChunkStorage and ChunkRenderer.            *)
(***************************************************************************)
RaceInit == running = [w \in Workers |-> NoTaskFor]

nonRaceVars == << workerVars, allocVars, meshes, geomThrown, lodVars, cmVars, voxelVars,
                 uploadVars, meshVars, drawVars, splitVars, createVars >>

\* MeshWorker.hpp lines 130-153: an idle worker takes the oldest task of the ring
meshWorkerTakes ==
    /\ ~drainEscaped
    /\ rQueue # << >>
    /\ \E w \in Workers :
        /\ running[w] = NoTaskFor
        /\ running' = [running EXCEPT ![w] = Head(rQueue)]
    /\ rQueue' = Tail(rQueue)
    /\ dropRefs' = { } /\ drainStale' = { } /\ otherCall
    /\ UNCHANGED << loaded, gridSized, gridBounds, renderData, chunkLOD, dirtyPending,
                    totalVertices, totalIndices, rDone, drainEscaped, drainFailed, pools >>
    /\ UNCHANGED nonRaceVars

\* MeshWorker.hpp lines 156-170: the worker has run fillTerrain or generateMesh to
\* the end and appends the task to m_done
meshWorkerFinishes ==
    /\ ~drainEscaped
    /\ \E w \in Workers :
        /\ running[w] # NoTaskFor
        /\ rDone' = Append(rDone, running[w])
        /\ running' = [running EXCEPT ![w] = NoTaskFor]
    /\ dropRefs' = { } /\ drainStale' = { } /\ otherCall
    /\ UNCHANGED << loaded, gridSized, gridBounds, renderData, chunkLOD, dirtyPending,
                    totalVertices, totalIndices, rQueue, drainEscaped, drainFailed, pools >>
    /\ UNCHANGED nonRaceVars

RaceNext ==
    \/ StorageGenerateWorld
    \/ StorageRemoveChunk
    \/ createChunkIfMissing
    \/ markDirty
    \/ flushDirty
    \/ storageSetVoxel
    \/ meshWorkerTakes
    \/ meshWorkerFinishes

(***************************************************************************)
(* Claims about the voxel arrays under the worker threads.                 *)
(***************************************************************************)
\* the keys of the chunks whose voxels a MESH task in execution reads, as its chunk
\* or as a neighbour
MeshReads ==
    UNION { running[w].refs : w \in { v \in Workers : running[v] # NoTaskFor
                                                      /\ running[v].type = "MESH" } }

\* the keys of the chunks a GENERATE task in execution fills
GenerateWrites ==
    { running[w].key : w \in { v \in Workers : running[v] # NoTaskFor
                                               /\ running[v].type = "GENERATE" } }

\* C36: the voxel array of a chunk is never written, by setVoxel on the main thread
\* or by the fillTerrain of a GENERATE task, while a worker executes a MESH task that
\* reads it as its chunk or as a neighbour; no MESH task runs on a chunk that is still
\* GENERATING.
C36_NoWriteUnderMeshing ==
    [][/\ (voxelCall'.tick # voxelCall.tick /\ voxelCall'.op = "set"
              /\ voxelCall'.ptr = "chunk") => voxelCall'.key \notin MeshReads
       /\ (MeshReads \cap GenerateWrites)' = { }]_vars

(***************************************************************************)
(* Claims about the ranges of a BlockAllocator.                            *)
(***************************************************************************)
\* the end of the range that allocate handed out for r: the size is rounded up to the
\* alignment (GeometryManager.hpp line 28)
LiveEnd(r) == r.offset + AlignUp(r.size, ALLOC_ALIGN)

\* the ranges [o1, e1) and [o2, e2) share no byte
Disjoint(o1, e1, o2, e2) == e1 <= o2 \/ e2 <= o1

\* C37: the live allocations of a BlockAllocator are pairwise disjoint, disjoint from
\* every free block, and lie inside [0, capacity).
C37_LiveRangesDisjoint ==
    \A r \in allocLive :
        /\ 0 <= r.offset /\ LiveEnd(r) <= allocCapacity
        /\ \A q \in allocLive \ { r } : Disjoint(r.offset, LiveEnd(r), q.offset, LiveEnd(q))
        /\ \A i \in 1..Len(allocator.freeBlocks) :
              LET b == allocator.freeBlocks[i]
              IN  Disjoint(r.offset, LiveEnd(r), b.offset, b.offset + b.size)

\* an allocate has succeeded while two free blocks and another live range exist
C37_Witness ==
    /\ allocLastOp = "allocate"
    /\ Cardinality(allocLive) >= 2
    /\ Len(allocator.freeBlocks) >= 2

(***************************************************************************)
(* Claims about the greedy scan of generateMesh.                           *)
(***************************************************************************)
\* lines 274-276: the step of the last generateMesh call and its grid size
CallStep == Pow2(IF meshCall.lod < 0 THEN 0 ELSE IF meshCall.lod > 2 THEN 2 ELSE meshCall.lod)
CallGrid == MESH_SIZE \div CallStep

\* the axis and the direction of quad q, from its faceID (line 391)
QuadAxis(q) == QuadVertex(q, 0).faceID \div 2
QuadDir(q) == IF QuadVertex(q, 0).faceID % 2 = 0 THEN 1 ELSE 0 - 1

\* line 434: the layer whose mask quad q was emitted for
QuadLayer(q) ==
    (VertexPos(QuadVertex(q, 0))[QuadAxis(q) + 1] - (IF QuadDir(q) > 0 THEN CallStep ELSE 0))
        \div CallStep

\* the coordinates of the corners of quad q on axis a
CornerCoords(q, a) == { VertexPos(QuadVertex(q, k))[a + 1] : k \in 0..3 }

\* lines 430-440: the mask cells << i, j >> inside the rectangle of quad q
QuadCells(q) ==
    LET us == CornerCoords(q, (QuadAxis(q) + 1) % 3)
        vs == CornerCoords(q, (QuadAxis(q) + 2) % 3)
    IN  { c \in (0..(CallGrid - 1)) \X (0..(CallGrid - 1)) :
            /\ \E lo \in us : lo <= c[1] * CallStep
            /\ \E hi \in us : c[1] * CallStep < hi
            /\ \E lo \in vs : lo <= c[2] * CallStep
            /\ \E hi \in vs : c[2] * CallStep < hi }

\* lines 347-401: the mask cell << i, j >> of the layer of face f
FaceCell(f, layer, c) ==
    MaskCell(chunkVoxels, NeighborsOf(meshCall.present), f \div 2,
             IF f % 2 = 0 THEN 1 ELSE 0 - 1, layer, CallStep, c[1], c[2])

\* the quads of the last mesh emitted for the layer of face f
LayerQuads(f, layer) == { q \in Quads : QuadVertex(q, 0).faceID = f /\ QuadLayer(q) = layer }

\* C38: the greedy scan covers every exposed face cell exactly once per axis,
\* direction and layer: the quads of a layer do not overlap, their union is the set of
\* the mask cells that are set, and every cell inside a quad has the palette index of
\* the quad.
C38_GreedyCoversEachCellOnce ==
    meshCall.called =>
        /\ \A q \in Quads : QuadLayer(q) \in 0..(CallGrid - 1)
        /\ \A f \in 0..5, layer \in 0..(CallGrid - 1) :
              /\ \A q1, q2 \in LayerQuads(f, layer) :
                    q1 # q2 => QuadCells(q1) \cap QuadCells(q2) = { }
              /\ UNION { QuadCells(q) : q \in LayerQuads(f, layer) }
                    = { c \in (0..(CallGrid - 1)) \X (0..(CallGrid - 1)) :
                          FaceCell(f, layer, c).faceID # EMPTY_FACE }
              /\ \A q \in LayerQuads(f, layer) : \A c \in QuadCells(q) :
                    FaceCell(f, layer, c).paletteIdx = QuadVertex(q, 0).paletteIdx

\* a mesh at LOD 0 with two quads of different palette index in one layer of one
\* face, one of them of more than one cell
C38_Witness ==
    /\ meshCall.called
    /\ meshCall.lod = 0
    /\ \E f \in 0..5, layer \in 0..(CallGrid - 1) :
          \E q1, q2 \in LayerQuads(f, layer) :
              /\ QuadVertex(q1, 0).paletteIdx # QuadVertex(q2, 0).paletteIdx
              /\ Cardinality(QuadCells(q1)) > 1

(***************************************************************************)
(* Claims about results that arrive after removeChunk.                     *)
(***************************************************************************)
\* removeChunk(k) has erased the record and the LOD of k and no flushDirty or setLOD
\* has recorded a LOD for k since: every MESH task of k was submitted before
RemovedKey(k) == chunkLOD[k] = NoLOD /\ renderData[k] = NoRecord

\* C39: after removeChunk(K), a drain of results of tasks for K that were submitted
\* before the removal creates no valid render record for K (and so no sub-allocation
\* in the pools for it).
C39_NoRecordAfterRemoval ==
    [][(rDone # << >> /\ rDone' = << >>) =>
          \A k \in Keys :
              RemovedKey(k) => renderData'[k] = NoRecord \/ ~renderData'[k].valid]_vars

(***************************************************************************)
(* ChunkStorage::createChunkIfMissing (ChunkStorage.cpp lines 193-211)     *)
(* called with any coordinate on any storage, sized or not.                *)
(***************************************************************************)
NoCreate == [called |-> FALSE]

CreateInit == createCall = NoCreate

\* the coordinates createChunkIfMissing is called with
CreateKeys == Keys \cup { OutOfGrid }

nonCreateVars == << workerVars, allocVars, meshes, geomThrown, lodVars, cmVars, voxelVars,
                   uploadVars, meshVars, drawVars, splitVars, raceVars >>

\* lines 193-211: line 194 takes the index, line 195 returns when it is -1; line 197
\* reads m_chunkGrid[idx], on a grid without slots past the end of an empty vector;
\* when the slot read is null, lines 198-208 make the chunk, move it to GENERATING,
\* store it in the slot (on a grid without slots, past the end again), submit the
\* GENERATE task (ChunkRenderer.cpp lines 81-94) and keep the chunk in m_activeChunks
storageCreateChunkIfMissing ==
    /\ ~drainEscaped
    /\ \E k \in CreateKeys :
        \E slot \in getChunk(k) :
            /\ createCall' = [called |-> TRUE, key |-> k,
                              inBounds |-> getGridIndex(k) # NoIndex, slot |-> slot,
                              tick |-> IF createCall.called THEN 1 - createCall.tick ELSE 0]
            /\ IF getGridIndex(k) # NoIndex /\ slot = "null"
               THEN /\ Len(rQueue) + Len(rDone) + 1 <= MaxInFlight
                    /\ loaded' = IF gridSized THEN loaded \cup { k } ELSE loaded
                    /\ rQueue' = Append(rQueue, MeshTask("GENERATE", k, 0, { k }))
               ELSE UNCHANGED << loaded, rQueue >>
    /\ dropRefs' = { } /\ drainStale' = { } /\ otherCall
    /\ UNCHANGED << gridSized, gridBounds, renderData, chunkLOD, dirtyPending,
                    totalVertices, totalIndices, rDone, drainEscaped, drainFailed, pools >>
    /\ UNCHANGED nonCreateVars

CreateNext ==
    \/ StorageGenerateWorld
    \/ StorageClear
    \/ StorageRemoveChunk
    \/ storageCreateChunkIfMissing
    \/ WorkerCompletes

(***************************************************************************)
(* Claims about createChunkIfMissing.                                      *)
(***************************************************************************)
\* C31: a createChunkIfMissing call with a coordinate inside the grid bounds leaves
\* exactly one chunk at that coordinate: when none was there it creates one and submits
\* one GENERATE task of LOD 0 for it, when one was there (an earlier call, no removal
\* since) it creates none and submits none; a call with a coordinate outside the bounds
\* changes neither the chunks nor the queue.
C31_CreatesExactlyOneChunk ==
    [][createCall' # createCall =>
          IF createCall'.inBounds
          THEN /\ createCall'.key \in loaded'
               /\ IF createCall'.key \in loaded
                  THEN loaded' = loaded /\ rQueue' = rQueue
                  ELSE /\ loaded' = loaded \cup { createCall'.key }
                       /\ rQueue' = Append(rQueue,
                                           MeshTask("GENERATE", createCall'.key, 0,
                                                    { createCall'.key }))
          ELSE loaded' = loaded /\ rQueue' = rQueue]_vars

(***************************************************************************)
(* Claims about the drain of GENERATE results.                             *)
(***************************************************************************)
\* C32: whenever rebuildDirtyChunks drains a completed GENERATE task of a chunk key and
\* returns, the key is in dirtyPending afterwards, whatever LOD chunkLOD records for the
\* key and whatever other results of the key the same drain collects.
C32_GenerateResultQueuesMesh ==
    [][(rDone # << >> /\ rDone' = << >> /\ ~drainEscaped') =>
          \A i \in 1..Len(rDone) :
              rDone[i].type = "GENERATE" => rDone[i].key \in dirtyPending']_vars

(***************************************************************************)
(* Specifications.                                                         *)
(***************************************************************************)
Init ==
    /\ WorkerInit /\ AllocInit /\ GeomInit /\ RendInit /\ LodInit /\ CmInit /\ VoxelInit
    /\ UploadInit /\ MeshInit /\ DrawInit /\ SplitInit /\ CreateInit
    /\ RaceInit

Next ==
    \/ submitBatchHigh
    \/ submitBatchLow
    \/ SubmitWaitSlot
    \/ SubmitWriteSlot
    \/ SubmitStoreTail
    \/ SubmitNotify
    \/ waitAll
    \/ WaitAllCheck
    \/ WaitAllBlock
    \/ collect
    \/ \E w \in Threads : WorkerTop(w)
    \/ \E w \in Threads : WorkerHighLoadTail(w)
    \/ \E w \in Threads : WorkerHighCas(w)
    \/ \E w \in Threads : WorkerHighMove(w)
    \/ \E w \in Threads : WorkerLowLoadHead(w)
    \/ \E w \in Threads : WorkerLowLoadTail(w)
    \/ \E w \in Threads : WorkerLowCas(w)
    \/ \E w \in Threads : WorkerLowMove(w)
    \/ \E w \in Threads : WorkerExecute(w)
    \/ \E w \in Threads : WorkerDecrement(w)
    \/ \E w \in Threads : WorkerNotifyDone(w)
    \/ \E w \in Threads : WorkerSleepCheck(w)
    \/ \E w \in Threads : WorkerSleepBlock(w)

Spec == Init /\ [][Next]_vars

\* the MeshWorker with its destruction
ShutdownNext ==
    \/ Next
    \/ destructor
    \/ DestructorRequestStop
    \/ DestructorNotify
    \/ DestructorJoin

SpecShutdown == Init /\ [][ShutdownNext]_vars

SpecAlloc == Init /\ [][AllocNext]_vars

SpecGeom == Init /\ [][GeomNext]_vars

\* the renderer with a pool of NWorkers threads
WorldInit == Init /\ threadCount = NWorkers

SpecUpload == WorldInit /\ [][UploadNext]_vars

SpecMesh == WorldInit /\ [][MeshNext]_vars

SpecDraw == WorldInit /\ [][DrawNext]_vars

SpecSplit == WorldInit /\ [][SplitNext]_vars

SpecCreate == WorldInit /\ [][CreateNext]_vars

SpecCamera == WorldInit /\ [][CameraNext]_vars

SpecStride == WorldInit /\ [][StrideNext]_vars

SpecRace == WorldInit /\ [][RaceNext]_vars

SpecLOD == WorldInit /\ [][LodNext]_vars

SpecChunkManager == WorldInit /\ [][CmNext]_vars

SpecStorage == WorldInit /\ [][StorageNext]_vars

\* the per-frame operations of ChunkRenderer and ChunkStorage
SpecRenderer == WorldInit /\ [][RendNext]_vars

\* the same with the world reset, ChunkRenderer::clear
WorldNext == RendNext \/ rendererClear

SpecWorld == WorldInit /\ [][WorldNext]_vars

====
